---- MODULE Spec2Model ----
(***************************************************************************)
(* Model of kikoeru-dir-helper.                                            *)
(*                                                                         *)
(*   Spec      the readiness tracker of src/src/monitor.py                 *)
(*             (ArchiveEventHandler): every handler is one atomic action.  *)
(*   FairSpec  Spec with the fairness of the main loop (ticks keep         *)
(*             occurring, time keeps passing).                             *)
(*   RaceSpec  the same handlers at the granularity of the statements of   *)
(*             monitor.py: the observer thread (callbacks) and the main    *)
(*             thread (tick) interleave, as DirectoryMonitor.start runs    *)
(*             them without a lock.                                        *)
(*   PwSpec    ArchiveProcessor._extract_password_from_filename of         *)
(*             src/src/helper.py applied, again and again, to file names   *)
(*             built from a base name, the marker and a chain of tokens.   *)
(*   CascadeSpec  ArchiveProcessor.process_archive and the archives-only   *)
(*             rule of _apply_rules, which hands the rest of a password    *)
(*             chain to the nested archive and recurses.                   *)
(***************************************************************************)
EXTENDS Integers, Sequences, FiniteSets, TLC

(***************************************************************************)
(* Bounds of the model.                                                    *)
(***************************************************************************)
\* largest size a modelled file takes (sizes are 1..MaxSize, 0 = no file)
MaxSize == 2
\* largest modification stamp of a modelled file (stamps are 1..MaxMtime)
MaxMtime == 2
\* cap on stable_count increments made by modification notifications
MaxStable == 3
\* number of entry dicts _handle_new_file may allocate in RaceSpec
MaxObjs == 2
\* longest password chain of a generated file name in PwSpec
MaxTokens == 3
\* deepest nesting of archives in CascadeSpec
MaxDepth == 3
\* most top-level entries an archive of ProcSpec holds
MaxEntries == 2
\* most entries the watch root of ProcSpec holds besides the archive
MaxPre == 2

(***************************************************************************)
(* Program constants and configuration.                                    *)
(***************************************************************************)
\* monitor.py:35  MIN_STABLE_CHECKS, default "2"
min_stable_checks == 2
\* monitor.py:36  MAX_WAIT_TIME (seconds), configured here as 5
max_wait_time == 5
\* monitor.py:154 min_check_delay = 3
min_check_delay == 3

\* Paths of archive files directly under the watch root.
Paths == {"a.zip"}

\* time.time() used as a modification time when the file does not exist
\* (monitor.py:81, 106, 110): a fresh clock reading, equal to no stored value.
ClockStamp == 0

\* current_time - created_time saturates here: the code only compares it
\* with min_check_delay (>=) and max_wait_time (>).
MaxElapsed == max_wait_time + 1

Min(a, b) == IF a < b THEN a ELSE b

VARIABLES
    files,          \* the watch root: Paths -> [exists, size, mtime]
    pending_files,  \* ArchiveEventHandler.pending_files: dict path -> entry
    lastOp,         \* the handler that ran last
    calls,          \* paths handed to process_archive by the last handler
    tickRes,        \* per path, what the last tick did with its entry
    seen,           \* per pending path, the (size, mtime) last observed by a
                    \* tick (tick = TRUE), initially by the creation handler
    stableTicks,    \* per pending path, consecutive ticks past the grace
                    \* delay that observed the file as `seen` had it
    alwaysDiff      \* per pending path, every tick so far observed a size
                    \* different from the previous observation

VARIABLES
    rfile,          \* RaceSpec: the watched file [exists, size, mtime]
    rentry,         \* RaceSpec: id of the dict stored in pending_files under
                    \* the file's key, 0 when the key is absent
    robjs,          \* RaceSpec: the entry dicts allocated so far, by id
    cb,             \* RaceSpec: the observer thread inside
                    \* _handle_modified_file: pc and locals
    tk,             \* RaceSpec: the main thread inside check_pending_files:
                    \* pc and locals
    rflags          \* RaceSpec: what went wrong so far: a callback raised
                    \* KeyError; a stable_count store overwrote a store made
                    \* since its read; a callback wrote to a dict the tick
                    \* had deleted, or the tick deleted a dict other than
                    \* the one it evaluated

VARIABLES
    pwGen,          \* PwSpec: how the file name was built: marker, tokens
    pwName,         \* PwSpec: the current file name, a sequence of characters
    pwRes,          \* PwSpec: the password returned by the last application
    pwStep          \* PwSpec: number of applications so far

trackerVars == <<files, pending_files, lastOp, calls, tickRes, seen,
                 stableTicks, alwaysDiff>>

raceVars == <<rfile, rentry, robjs, cb, tk, rflags>>

pwVars == <<pwGen, pwName, pwRes, pwStep>>

\* CascadeSpec: one archive going through process_archive and _apply_rules.
VARIABLES
    casGen,      \* the marker and the chain of the original file name
    casName,     \* archive_path.name of the archive being processed
    casPw,       \* the password handed to _extract_archive_by_type
    casNested,   \* target_path.name of the nested archive once moved
    casLevel,    \* nesting level of the archive being processed (1 = outer)
    casPc        \* "new", "extracted" or "moved"

casVars == <<casGen, casName, casPw, casNested, casLevel, casPc>>

\* DetectSpec: one call of ArchiveProcessor._detect_file_type.
VARIABLES
    dtFile,      \* the path examined: its kind, suffix and leading bytes
    dtMagic,     \* whether the python-magic library can be imported
    dtRes,       \* the returned type and whether the bytes were read
    dtPc         \* "idle", "new" or "done"

detVars == <<dtFile, dtMagic, dtRes, dtPc>>

\* ProcSpec, ProcFaultSpec: one call of ArchiveProcessor.process_archive.
VARIABLES
    paGen,       \* the archive handed in: its file name, its extracted
                 \* content and what the watch root held before
    paRoot,      \* the watch root: entry name -> entry
    paScratch,   \* the scratch directory of the extraction: name -> entry
    paPath,      \* archive_path.name, as renamed so far
    paPw,        \* the password taken from the file name
    paDisp,      \* the disposition _apply_rules selected
    paOut,       \* the outcome: result, exception, failed operation
    paPc         \* position in process_archive

procVars == <<paGen, paRoot, paScratch, paPath, paPw, paDisp, paOut, paPc>>

VARIABLES
    lpFiles,     \* files_to_process of one tick: what is wrong with each file
    lpIdx,       \* position of the for loop in files_to_process
    lpHanded,    \* the positions handed to process_archive, in order
    lpResults,   \* what each call of process_archive came back with
    lpPc         \* where check_pending_files stands

loopVars == <<lpFiles, lpIdx, lpHanded, lpResults, lpPc>>

VARIABLES
    shRunning,   \* DirectoryMonitor.running
    shObserver,  \* the watchdog observer thread: "new", "alive" or "stopped"
    shPending,   \* archives the next tick will promote
    shTodo,      \* files_to_process still ahead in the tick, current one first
    shStage,     \* how far the current archive got inside process_archive
    shMoved,     \* entries of the current archive already moved to the root
    shLog,       \* how each archive handed to process_archive ended
    shPc         \* where the main thread stands

shutVars == <<shRunning, shObserver, shPending, shTodo, shStage, shMoved, shLog, shPc>>

VARIABLES
    swFiles,     \* SweepSpec: per pending path, the file [exists, size, mtime]
    swStat,      \* per pending path, whether stat() succeeds in this tick
    swBefore,    \* pending_files when the tick began
    swPending,   \* pending_files
    swItems,     \* list(self.pending_files.items()) still to visit
    swVisited,   \* the paths the loop has visited, in order
    swToProcess, \* files_to_process
    swPc         \* where check_pending_files stands

sweepVars == <<swFiles, swStat, swBefore, swPending, swItems, swVisited, swToProcess, swPc>>

VARIABLES
    ogPending,   \* the names the notification handlers entered in pending_files
    ogLast       \* the last notification handled: its kind and its path

organizedVars == <<ogPending, ogLast>>

vars == <<trackerVars, raceVars, pwVars, casVars, detVars, procVars, loopVars, shutVars, sweepVars, organizedVars>>

NoFile == [exists |-> FALSE, size |-> 0, mtime |-> 0]
NoRes == [res |-> "none", sc |-> 0, el |-> 0, ticks |-> 0, diff |-> FALSE,
          before |-> 0, changed |-> FALSE]
NoSeen == [size |-> 0, mtime |-> ClockStamp, tick |-> FALSE]

\* file_path.stat() guarded by file_path.exists(), as the two notification
\* handlers read it: size 0 and the clock when the file is missing.
StatOrDefault(p) ==
    IF files[p].exists
    THEN [size |-> files[p].size, mtime |-> files[p].mtime]
    ELSE [size |-> 0, mtime |-> ClockStamp]

\* current_mtime == file_info.get("last_mtime", 0)
MtimeEq(a, b) == a = b /\ a # ClockStamp

\* The dict entry built by _handle_new_file.
NewEntry(st) ==
    [last_size |-> st.size, last_mtime |-> st.mtime, elapsed |-> 0,
     stable_count |-> 0]

\* size_stable and mtime_stable
Unchanged(e, st) == st.size = e.last_size /\ MtimeEq(st.mtime, e.last_mtime)

\* stable_count = 0; last_size = current_size; last_mtime = current_mtime
ResetBaseline(e, st) ==
    [e EXCEPT !.stable_count = 0, !.last_size = st.size, !.last_mtime = st.mtime]

\* The stability update of _handle_modified_file.
ModifiedUpdate(e, st) ==
    IF Unchanged(e, st)
    THEN [e EXCEPT !.stable_count = @ + 1]
    ELSE ResetBaseline(e, st)

\* A tick that applies the rule of the notification handler, grace period
\* or not.
TickUpdateNoGrace(e, st) == ModifiedUpdate(e, st)

\* The stability update of check_pending_files for one entry.
TickUpdate(e, st) ==
    IF e.elapsed >= min_check_delay
    THEN IF Unchanged(e, st)
         THEN [e EXCEPT !.stable_count = @ + 1]
         ELSE ResetBaseline(e, st)
    ELSE ResetBaseline(e, st)

\* Decision with the forced rule written >= instead of >.
DecisionForcedAtLimit(e) ==
    IF e.stable_count >= min_stable_checks THEN "stable"
    ELSE IF e.elapsed >= max_wait_time THEN "forced"
    ELSE "wait"

\* The promotion decision of check_pending_files: "stable", "forced" or
\* "wait" (should_process stays False).
Decision(e) ==
    IF e.stable_count >= min_stable_checks THEN "stable"
    ELSE IF e.elapsed > max_wait_time THEN "forced"
    ELSE "wait"

(***************************************************************************)
(* The environment: files appear, are written and disappear.               *)
(***************************************************************************)
FileCreate(p) ==
    /\ ~files[p].exists
    /\ \E s \in 1..MaxSize, m \in 1..MaxMtime :
         files' = [files EXCEPT ![p] = [exists |-> TRUE, size |-> s, mtime |-> m]]
    /\ lastOp' = "env"
    /\ calls' = {}
    /\ tickRes' = [q \in Paths |-> NoRes]
    /\ UNCHANGED <<pending_files, seen, stableTicks, alwaysDiff>>
    /\ UNCHANGED <<raceVars, pwVars, casVars, detVars, procVars, loopVars, shutVars, sweepVars, organizedVars>>

FileWrite(p) ==
    /\ files[p].exists
    /\ \E s \in 1..MaxSize, m \in 1..MaxMtime :
         /\ <<s, m>> # <<files[p].size, files[p].mtime>>
         /\ files' = [files EXCEPT ![p] = [exists |-> TRUE, size |-> s, mtime |-> m]]
    /\ lastOp' = "env"
    /\ calls' = {}
    /\ tickRes' = [q \in Paths |-> NoRes]
    /\ UNCHANGED <<pending_files, seen, stableTicks, alwaysDiff>>
    /\ UNCHANGED <<raceVars, pwVars, casVars, detVars, procVars, loopVars, shutVars, sweepVars, organizedVars>>

FileDelete(p) ==
    /\ files[p].exists
    /\ files' = [files EXCEPT ![p] = NoFile]
    /\ lastOp' = "env"
    /\ calls' = {}
    /\ tickRes' = [q \in Paths |-> NoRes]
    /\ UNCHANGED <<pending_files, seen, stableTicks, alwaysDiff>>
    /\ UNCHANGED <<raceVars, pwVars, casVars, detVars, procVars, loopVars, shutVars, sweepVars, organizedVars>>

\* The clock advances by one second.
Advance ==
    /\ \E p \in DOMAIN pending_files : pending_files[p].elapsed < MaxElapsed
    /\ pending_files' =
         [p \in DOMAIN pending_files |->
            [pending_files[p] EXCEPT !.elapsed = Min(@ + 1, MaxElapsed)]]
    /\ lastOp' = "env"
    /\ calls' = {}
    /\ tickRes' = [q \in Paths |-> NoRes]
    /\ UNCHANGED <<files, seen, stableTicks, alwaysDiff>>
    /\ UNCHANGED <<raceVars, pwVars, casVars, detVars, procVars, loopVars, shutVars, sweepVars, organizedVars>>

(***************************************************************************)
(* Notification callbacks.                                                 *)
(***************************************************************************)
\* on_created -> _handle_new_file
OnCreated(p) ==
    /\ pending_files' =
         [q \in (DOMAIN pending_files) \cup {p} |->
            IF q = p THEN NewEntry(StatOrDefault(p)) ELSE pending_files[q]]
    /\ seen' = [seen EXCEPT ![p] = [size |-> StatOrDefault(p).size,
                                 mtime |-> StatOrDefault(p).mtime,
                                 tick |-> FALSE]]
    /\ stableTicks' = [stableTicks EXCEPT ![p] = 0]
    /\ alwaysDiff' = [alwaysDiff EXCEPT ![p] = TRUE]
    /\ lastOp' = "on_created"
    /\ calls' = {}
    /\ tickRes' = [q \in Paths |-> NoRes]
    /\ UNCHANGED files
    /\ UNCHANGED <<raceVars, pwVars, casVars, detVars, procVars, loopVars, shutVars, sweepVars, organizedVars>>

\* A modification handler that enters an unknown path into the mapping.
OnModifiedInserts(p) ==
    /\ pending_files' =
         [q \in (DOMAIN pending_files) \cup {p} |->
            IF q \in DOMAIN pending_files
            THEN pending_files[q] ELSE NewEntry(StatOrDefault(p))]
    /\ lastOp' = "on_modified"
    /\ calls' = {}
    /\ tickRes' = [q \in Paths |-> NoRes]
    /\ UNCHANGED <<files, seen, stableTicks, alwaysDiff>>
    /\ UNCHANGED <<raceVars, pwVars, casVars, detVars, procVars, loopVars, shutVars, sweepVars, organizedVars>>

\* on_modified -> _handle_modified_file
OnModified(p) ==
    /\ IF p \in DOMAIN pending_files
       THEN /\ ModifiedUpdate(pending_files[p], StatOrDefault(p)).stable_count
                 <= MaxStable
            /\ pending_files' =
                 [pending_files EXCEPT
                    ![p] = ModifiedUpdate(pending_files[p], StatOrDefault(p))]
       ELSE UNCHANGED pending_files
    /\ lastOp' = "on_modified"
    /\ calls' = {}
    /\ tickRes' = [q \in Paths |-> NoRes]
    /\ UNCHANGED <<files, seen, stableTicks, alwaysDiff>>
    /\ UNCHANGED <<raceVars, pwVars, casVars, detVars, procVars, loopVars, shutVars, sweepVars, organizedVars>>

(***************************************************************************)
(* The tick: check_pending_files, with the process_archive calls it makes.  *)
(***************************************************************************)
\* What check_pending_files does with the entry of p when the file's stat
\* succeeds (ok) or raises OSError: the entry after the update and the
\* outcome for it.
TickEntry(p, ok) ==
    LET e == pending_files[p] IN
    IF ~files[p].exists THEN [res |-> "missing", e |-> e]
    ELSE IF ~ok THEN [res |-> "statfail", e |-> e]
    ELSE LET u == TickUpdate(e, [size |-> files[p].size, mtime |-> files[p].mtime])
         IN [res |-> Decision(u), e |-> u]

\* The paths check_pending_files appends to files_to_process.
Promoted(statOK) ==
    {p \in DOMAIN pending_files : TickEntry(p, statOK[p]).res \in {"stable", "forced"}}

\* Dropped without the `del` that follows files_to_process.append.
DroppedKeepsPromoted(statOK) ==
    {p \in DOMAIN pending_files : TickEntry(p, statOK[p]).res = "missing"}

\* The paths check_pending_files deletes from the mapping.
Dropped(statOK) ==
    {p \in DOMAIN pending_files :
        TickEntry(p, statOK[p]).res \in {"missing", "stable", "forced"}}

\* The observation bookkeeping of one tick for path p (history only).
SeenAfter(p, ok) ==
    IF files[p].exists /\ ok
    THEN [size |-> files[p].size, mtime |-> files[p].mtime, tick |-> TRUE]
    ELSE seen[p]

\* The tick observes a size or a modification time other than the ones the
\* previous tick observed (history only).
ChangedSince(p, ok) ==
    /\ files[p].exists /\ ok
    /\ seen[p].tick
    /\ files[p].size # seen[p].size \/ files[p].mtime # seen[p].mtime

TicksAfter(p, ok) ==
    IF ~(files[p].exists /\ ok) THEN stableTicks[p]
    ELSE IF /\ pending_files[p].elapsed >= min_check_delay
            /\ files[p].size = seen[p].size
            /\ files[p].mtime = seen[p].mtime
         THEN Min(stableTicks[p] + 1, MaxStable + 1)
         ELSE 0

DiffAfter(p, ok) ==
    IF files[p].exists /\ ok
    THEN alwaysDiff[p] /\ files[p].size # seen[p].size
    ELSE alwaysDiff[p]

TickWith(statOK, procOK) ==
      LET gone == Dropped(statOK)
          prom == Promoted(statOK)
      IN
      /\ pending_files' =
           [p \in (DOMAIN pending_files) \ gone |-> TickEntry(p, statOK[p]).e]
      /\ tickRes' =
           [p \in Paths |->
              IF p \in DOMAIN pending_files
              THEN [res   |-> TickEntry(p, statOK[p]).res,
                    sc    |-> TickEntry(p, statOK[p]).e.stable_count,
                    el    |-> pending_files[p].elapsed,
                    ticks |-> TicksAfter(p, statOK[p]),
                    diff  |-> DiffAfter(p, statOK[p]),
                    before |-> pending_files[p].stable_count,
                    changed |-> ChangedSince(p, statOK[p])]
              ELSE NoRes]
      /\ calls' = prom
      \* process_archive(p) either removes the archive from the watch root
      \* (processed, or renamed) or leaves it where it is.
      /\ files' = [p \in Paths |->
                     IF p \in prom /\ procOK[p] THEN NoFile ELSE files[p]]
      /\ seen' = [p \in Paths |->
                    IF p \in gone THEN NoSeen
                    ELSE IF p \in DOMAIN pending_files THEN SeenAfter(p, statOK[p])
                    ELSE seen[p]]
      /\ stableTicks' = [p \in Paths |->
                    IF p \in gone THEN 0
                    ELSE IF p \in DOMAIN pending_files THEN TicksAfter(p, statOK[p])
                    ELSE stableTicks[p]]
      /\ alwaysDiff' = [p \in Paths |->
                    IF p \in gone THEN FALSE
                    ELSE IF p \in DOMAIN pending_files THEN DiffAfter(p, statOK[p])
                    ELSE alwaysDiff[p]]
      /\ lastOp' = "tick"
      /\ UNCHANGED <<raceVars, pwVars, casVars, detVars, procVars, loopVars, shutVars, sweepVars, organizedVars>>

Tick ==
    \E statOK \in [Paths -> BOOLEAN], procOK \in [Paths -> BOOLEAN] :
        TickWith(statOK, procOK)

CbIdle == [pc |-> "idle", size |-> 0, mtime |-> 0, ref |-> 0, tmp |-> 0]
TkIdle == [pc |-> "idle", size |-> 0, mtime |-> 0, ref |-> 0, tmp |-> 0, el |-> 0]
NoFlags == [cbFailed |-> FALSE, lostUpdate |-> FALSE, staleUpdate |-> FALSE]
NoObj == [last_size |-> 0, last_mtime |-> 0, elapsed |-> 0, stable_count |-> 0,
          live |-> FALSE]

RaceInit ==
    /\ rfile = NoFile
    /\ rentry = 0
    /\ robjs = [i \in 1..MaxObjs |-> NoObj]
    /\ cb = CbIdle
    /\ tk = TkIdle
    /\ rflags = NoFlags

TrackerInit ==
    /\ files = [p \in Paths |-> NoFile]
    /\ pending_files = << >>
    /\ lastOp = "init"
    /\ calls = {}
    /\ tickRes = [p \in Paths |-> NoRes]
    /\ seen = [p \in Paths |-> NoSeen]
    /\ stableTicks = [p \in Paths |-> 0]
    /\ alwaysDiff = [p \in Paths |-> FALSE]

\* Optional[str]: None, or a string (possibly empty).
NoPassword == [some |-> FALSE, text |-> << >>]
Password(t) == [some |-> TRUE, text |-> t]

PwIdle ==
    /\ pwGen = [marker |-> << >>, tokens |-> << >>]
    /\ pwName = << >>
    /\ pwRes = NoPassword
    /\ pwStep = 0

\* no archive is being processed
CasIdle ==
    /\ casGen = [marker |-> << >>, tokens |-> << >>]
    /\ casName = << >>
    /\ casPw = NoPassword
    /\ casNested = << >>
    /\ casLevel = 0
    /\ casPc = "idle"


\* _detect_file_type returning None without opening the file
NotArchive == [type |-> "none", read |-> FALSE]

\* _detect_file_type is not being called
DetIdle ==
    /\ dtFile = [kind |-> "other", suffix |-> "",
                 header |-> [readable |-> FALSE, bytes |-> << >>]]
    /\ dtMagic = FALSE
    /\ dtRes = NotArchive
    /\ dtPc = "idle"

\* an empty directory listing
NoEntries == [n \in {} |-> n]

\* process_archive has not returned; failed holds the nested archives whose
\* own process_archive call returned False
NoOutcome == [result |-> "none", raised |-> FALSE, fault |-> "none", failed |-> {}]

\* process_archive is not being called
ProcIdle ==
    /\ paGen = [name |-> << >>, content |-> NoEntries, pre |-> NoEntries]
    /\ paRoot = NoEntries
    /\ paScratch = NoEntries
    /\ paPath = << >>
    /\ paPw = NoPassword
    /\ paDisp = "none"
    /\ paOut = NoOutcome
    /\ paPc = "idle"

LoopIdle ==
    /\ lpFiles = << >>
    /\ lpIdx = 1
    /\ lpHanded = << >>
    /\ lpResults = << >>
    /\ lpPc = "idle"

ShutIdle ==
    /\ shRunning = FALSE
    /\ shObserver = "new"
    /\ shPending = << >>
    /\ shTodo = << >>
    /\ shStage = "none"
    /\ shMoved = 0
    /\ shLog = << >>
    /\ shPc = "off"

SweepIdle ==
    /\ swFiles = << >>
    /\ swStat = << >>
    /\ swBefore = << >>
    /\ swPending = << >>
    /\ swItems = << >>
    /\ swVisited = << >>
    /\ swToProcess = << >>
    /\ swPc = "idle"

\* no notification was handled
OrganizedIdle ==
    /\ ogPending = {}
    /\ ogLast = [op |-> "none", name |-> << >>]

Init == TrackerInit /\ RaceInit /\ PwIdle /\ CasIdle /\ DetIdle /\ ProcIdle /\ LoopIdle /\ ShutIdle /\ SweepIdle /\ OrganizedIdle

Next ==
    \/ \E p \in Paths : FileCreate(p)
    \/ \E p \in Paths : FileWrite(p)
    \/ \E p \in Paths : FileDelete(p)
    \/ Advance
    \/ \E p \in Paths : OnCreated(p)
    \/ \E p \in Paths : OnModified(p)
    \/ Tick

Spec == Init /\ [][Next]_vars

\* The main loop of DirectoryMonitor.start keeps ticking and the clock keeps
\* advancing; ticks whose stat calls succeed keep occurring.
FairSpec ==
    /\ Spec
    /\ WF_vars(Advance)
    /\ WF_vars(\E procOK \in [Paths -> BOOLEAN] :
                  TickWith([p \in Paths |-> TRUE], procOK))

(***************************************************************************)
(* Claims about the readiness tracker.                                     *)
(***************************************************************************)
\* p was promoted by the last tick: removed from the mapping and handed to
\* process_archive.
WasPromoted(p) == p \in calls /\ p \notin DOMAIN pending_files

\* C1 (as stated): on every tick, a pending file that still exists is
\* promoted iff after the tick's update its stable count is >=
\* min_stable_checks or the time since it was first seen is > max_wait_time.
C1_PromotedIffExists ==
    \A p \in Paths :
        tickRes[p].res \notin {"none", "missing"}
        => (WasPromoted(p) <=> (\/ tickRes[p].sc >= min_stable_checks
                                \/ tickRes[p].el > max_wait_time))

\* C1 (amended): on every tick, a pending file that still exists and whose
\* stat succeeds is promoted iff after the tick's update its stable count is
\* >= min_stable_checks or the time since it was first seen is >
\* max_wait_time; an entry whose stat fails is left pending.
C1_PromotedIffChecked ==
    \A p \in Paths :
        /\ tickRes[p].res \in {"wait", "stable", "forced"}
           => (WasPromoted(p) <=> (\/ tickRes[p].sc >= min_stable_checks
                                \/ tickRes[p].el > max_wait_time))
        /\ tickRes[p].res = "statfail" => p \in DOMAIN pending_files /\ p \notin calls

\* A tick promoted a file by the forced rule alone: its stable count is below
\* the threshold.
C1_Witness ==
    \E p \in Paths :
        /\ lastOp = "tick"
        /\ tickRes[p].res = "forced"
        /\ tickRes[p].sc < min_stable_checks
        /\ WasPromoted(p)

\* C2 (as stated): a file is promoted for stability after exactly
\* min_stable_checks ticks that observed it unchanged past the grace delay,
\* never after fewer, whatever notifications were handled in between.
C2_StableAfterExactlyMinTicks ==
    \A p \in Paths :
        tickRes[p].res = "stable" => tickRes[p].ticks = min_stable_checks

\* C3 (as stated): a pending file whose size differs at every tick from the
\* size at the previous tick is never promoted because of its stable count.
C3_ChangingNeverStable ==
    \A p \in Paths : tickRes[p].diff => tickRes[p].res # "stable"

\* C4 (as stated): provided ticks keep occurring, every file entered into
\* the pending mapping is eventually removed from it.
C4_EventuallyRemoved ==
    \A p \in Paths : (p \in DOMAIN pending_files) ~> (p \notin DOMAIN pending_files)

\* C5: notification callbacks only insert or update entries of the pending
\* mapping and never invoke process_archive; process_archive is invoked only
\* by a tick, for a path that this tick removes from the mapping.
C5_OnlyTickProcesses ==
    [][ /\ lastOp' \in {"on_created", "on_modified"}
           => /\ calls' = {}
              /\ DOMAIN pending_files \subseteq DOMAIN pending_files'
        /\ \A p \in calls' :
              /\ lastOp' = "tick"
              /\ p \in DOMAIN pending_files
              /\ p \notin DOMAIN pending_files' ]_vars

\* A modification callback has just counted the file stable often enough for
\* promotion, and the file is still pending and unprocessed.
C5_Witness ==
    \E p \in DOMAIN pending_files :
        /\ lastOp = "on_modified"
        /\ pending_files[p].stable_count >= min_stable_checks
        /\ calls = {}

(***************************************************************************)
(* RaceSpec: the callbacks run on the watchdog observer thread              *)
(* (observer.start(), monitor.py:241) while check_pending_files runs on the *)
(* main thread (monitor.py:245-247); no lock guards pending_files. One      *)
(* watched file; each action is one statement of the handlers.              *)
(***************************************************************************)
RStat ==
    IF rfile.exists
    THEN [size |-> rfile.size, mtime |-> rfile.mtime]
    ELSE [size |-> 0, mtime |-> ClockStamp]

\* Dicts no thread and no mapping entry refers to are gone.
Collect(objs, keep) ==
    [i \in 1..MaxObjs |-> IF i \in keep THEN objs[i] ELSE NoObj]

FreeIds == (1..MaxObjs) \ {rentry, cb.ref, tk.ref}

\* In RaceSpec every write changes the size and the modification time
\* together, and the run is followed up to the first failure.
RFileCreate ==
    /\ rflags = NoFlags
    /\ ~rfile.exists
    /\ \E s \in 1..MaxSize :
         rfile' = [exists |-> TRUE, size |-> s, mtime |-> s]
    /\ UNCHANGED <<rentry, robjs, cb, tk, rflags, trackerVars, pwVars, casVars, detVars, procVars, loopVars, shutVars, sweepVars, organizedVars>>

RFileWrite ==
    /\ rflags = NoFlags
    /\ rfile.exists
    /\ \E s \in 1..MaxSize :
         /\ s # rfile.size
         /\ rfile' = [exists |-> TRUE, size |-> s, mtime |-> s]
    /\ UNCHANGED <<rentry, robjs, cb, tk, rflags, trackerVars, pwVars, casVars, detVars, procVars, loopVars, shutVars, sweepVars, organizedVars>>

RFileDelete ==
    /\ rflags = NoFlags
    /\ rfile.exists
    /\ rfile' = NoFile
    /\ UNCHANGED <<rentry, robjs, cb, tk, rflags, trackerVars, pwVars, casVars, detVars, procVars, loopVars, shutVars, sweepVars, organizedVars>>

\* min_check_delay seconds pass.
RAdvance ==
    /\ rflags = NoFlags
    /\ \E i \in 1..MaxObjs : robjs[i].live /\ robjs[i].elapsed < MaxElapsed
    /\ robjs' = [i \in 1..MaxObjs |->
                   IF robjs[i].live
                   THEN [robjs[i] EXCEPT
                           !.elapsed = Min(@ + min_check_delay, MaxElapsed)]
                   ELSE robjs[i]]
    /\ UNCHANGED <<rfile, rentry, cb, tk, rflags, trackerVars, pwVars, casVars, detVars, procVars, loopVars, shutVars, sweepVars, organizedVars>>

\* on_created -> _handle_new_file: a new dict is stored under the key.
CbCreated ==
    /\ rflags = NoFlags
    /\ cb.pc = "idle"
    /\ FreeIds # {}
    /\ LET id == CHOOSE i \in FreeIds : \A j \in FreeIds : i <= j IN
       /\ rentry' = id
       /\ robjs' = Collect([robjs EXCEPT ![id] =
                       [last_size |-> RStat.size, last_mtime |-> RStat.mtime,
                        elapsed |-> 0, stable_count |-> 0, live |-> TRUE]],
                       {id, cb.ref, tk.ref})
    /\ UNCHANGED <<rfile, cb, tk, rflags, trackerVars, pwVars, casVars, detVars, procVars, loopVars, shutVars, sweepVars, organizedVars>>

\* _handle_modified_file, line 102: if str(file_path) in self.pending_files
CbModBegin ==
    /\ rflags = NoFlags
    /\ cb.pc = "idle"
    /\ rentry # 0
    /\ robjs[rentry].stable_count < MaxStable
    /\ cb' = [cb EXCEPT !.pc = "stat"]
    /\ UNCHANGED <<rfile, rentry, robjs, tk, rflags, trackerVars, pwVars, casVars, detVars, procVars, loopVars, shutVars, sweepVars, organizedVars>>

\* lines 103-110: current_size, current_mtime
CbModStat ==
    /\ rflags = NoFlags
    /\ cb.pc = "stat"
    /\ cb' = [cb EXCEPT !.pc = "get", !.size = RStat.size, !.mtime = RStat.mtime]
    /\ UNCHANGED <<rfile, rentry, robjs, tk, rflags, trackerVars, pwVars, casVars, detVars, procVars, loopVars, shutVars, sweepVars, organizedVars>>

\* line 112: file_info = self.pending_files[str(file_path)], a KeyError when
\* the key is gone.
CbModGet ==
    /\ rflags = NoFlags
    /\ cb.pc = "get"
    /\ IF rentry = 0
       THEN /\ cb' = CbIdle
            /\ rflags' = [rflags EXCEPT !.cbFailed = TRUE]
       ELSE /\ cb' = [cb EXCEPT !.pc = "cmp", !.ref = rentry]
            /\ UNCHANGED rflags
    /\ UNCHANGED <<rfile, rentry, robjs, tk, trackerVars, pwVars, casVars, detVars, procVars, loopVars, shutVars, sweepVars, organizedVars>>

\* lines 115-123: the comparison; the else branch resets the baseline, the
\* then branch has read stable_count for the += 1.
CbModCmp ==
    /\ rflags = NoFlags
    /\ cb.pc = "cmp"
    /\ LET o == robjs[cb.ref]
           st == [size |-> cb.size, mtime |-> cb.mtime] IN
       IF Unchanged(o, st)
       THEN /\ cb' = [cb EXCEPT !.pc = "inc", !.tmp = o.stable_count]
            /\ UNCHANGED <<robjs, rflags>>
       ELSE /\ cb' = CbIdle
            /\ robjs' = Collect([robjs EXCEPT ![cb.ref] = ResetBaseline(o, st)],
                                {rentry, tk.ref})
            /\ rflags' = [rflags EXCEPT
                            !.staleUpdate = @ \/ cb.ref # rentry]
    /\ UNCHANGED <<rfile, rentry, tk, trackerVars, pwVars, casVars, detVars, procVars, loopVars, shutVars, sweepVars, organizedVars>>

\* line 119: the store of file_info["stable_count"] += 1
CbModInc ==
    /\ rflags = NoFlags
    /\ cb.pc = "inc"
    /\ cb' = CbIdle
    /\ robjs' = Collect([robjs EXCEPT ![cb.ref].stable_count = cb.tmp + 1],
                        {rentry, tk.ref})
    /\ rflags' = [rflags EXCEPT
                    !.lostUpdate = @ \/ robjs[cb.ref].stable_count # cb.tmp,
                    !.staleUpdate = @ \/ cb.ref # rentry]
    /\ UNCHANGED <<rfile, rentry, tk, trackerVars, pwVars, casVars, detVars, procVars, loopVars, shutVars, sweepVars, organizedVars>>

\* check_pending_files, lines 129-133: current_time and the snapshot
\* list(self.pending_files.items()).
TkBegin ==
    /\ rflags = NoFlags
    /\ tk.pc = "idle"
    /\ rentry # 0
    /\ tk' = [tk EXCEPT !.pc = "exists", !.ref = rentry,
                        !.el = robjs[rentry].elapsed]
    /\ UNCHANGED <<rfile, rentry, robjs, cb, rflags, trackerVars, pwVars, casVars, detVars, procVars, loopVars, shutVars, sweepVars, organizedVars>>

\* lines 136-139: a missing file drops whatever is stored under the key.
TkExists ==
    /\ rflags = NoFlags
    /\ tk.pc = "exists"
    /\ IF rfile.exists
       THEN /\ tk' = [tk EXCEPT !.pc = "stat"]
            /\ UNCHANGED <<rentry, robjs, rflags>>
       ELSE /\ tk' = TkIdle
            /\ rentry' = 0
            /\ robjs' = Collect(robjs, {cb.ref})
            /\ UNCHANGED rflags
    /\ UNCHANGED <<rfile, cb, trackerVars, pwVars, casVars, detVars, procVars, loopVars, shutVars, sweepVars, organizedVars>>

\* lines 142-147: stat, OSError (the file has just gone) skips the entry.
TkStat ==
    /\ rflags = NoFlags
    /\ tk.pc = "stat"
    /\ IF rfile.exists
       THEN /\ tk' = [tk EXCEPT !.pc = "cmp", !.size = rfile.size,
                                !.mtime = rfile.mtime]
            /\ UNCHANGED robjs
       ELSE /\ tk' = TkIdle
            /\ robjs' = Collect(robjs, {rentry, cb.ref})
    /\ UNCHANGED <<rfile, rentry, cb, rflags, trackerVars, pwVars, casVars, detVars, procVars, loopVars, shutVars, sweepVars, organizedVars>>

\* lines 151-170: the comparison; both reset branches write the baseline,
\* the stable branch has read stable_count for the += 1.
TkCmp ==
    /\ rflags = NoFlags
    /\ tk.pc = "cmp"
    /\ LET o == robjs[tk.ref]
           st == [size |-> tk.size, mtime |-> tk.mtime] IN
       IF tk.el >= min_check_delay /\ Unchanged(o, st)
       THEN /\ tk' = [tk EXCEPT !.pc = "inc", !.tmp = o.stable_count]
            /\ UNCHANGED <<robjs, rflags>>
       ELSE /\ tk' = [tk EXCEPT !.pc = "decide"]
            /\ robjs' = [robjs EXCEPT ![tk.ref] = ResetBaseline(o, st)]
            /\ UNCHANGED rflags
    /\ UNCHANGED <<rfile, rentry, cb, trackerVars, pwVars, casVars, detVars, procVars, loopVars, shutVars, sweepVars, organizedVars>>

\* line 161: the store of file_info["stable_count"] += 1
TkInc ==
    /\ rflags = NoFlags
    /\ tk.pc = "inc"
    /\ tk' = [tk EXCEPT !.pc = "decide"]
    /\ robjs' = [robjs EXCEPT ![tk.ref].stable_count = tk.tmp + 1]
    /\ rflags' = [rflags EXCEPT
                    !.lostUpdate = @ \/ robjs[tk.ref].stable_count # tk.tmp]
    /\ UNCHANGED <<rfile, rentry, cb, trackerVars, pwVars, casVars, detVars, procVars, loopVars, shutVars, sweepVars, organizedVars>>

\* lines 173-208: the decision, del self.pending_files[file_path_str] and
\* process_archive, which removes the archive or leaves it.
TkDecide ==
    /\ rflags = NoFlags
    /\ tk.pc = "decide"
    /\ tk' = TkIdle
    /\ IF Decision([robjs[tk.ref] EXCEPT !.elapsed = tk.el]) \in {"stable", "forced"}
       THEN /\ rentry' = 0
            /\ robjs' = Collect(robjs, {cb.ref})
            /\ rflags' = [rflags EXCEPT !.staleUpdate = @ \/ tk.ref # rentry]
            /\ \E gone \in BOOLEAN : rfile' = IF gone THEN NoFile ELSE rfile
       ELSE /\ robjs' = Collect(robjs, {rentry, cb.ref})
            /\ UNCHANGED <<rentry, rflags, rfile>>
    /\ UNCHANGED <<cb, trackerVars, pwVars, casVars, detVars, procVars, loopVars, shutVars, sweepVars, organizedVars>>

RaceNext ==
    \/ RFileCreate \/ RFileWrite \/ RFileDelete \/ RAdvance
    \/ CbCreated \/ CbModBegin \/ CbModStat \/ CbModGet \/ CbModCmp \/ CbModInc
    \/ TkBegin \/ TkExists \/ TkStat \/ TkCmp \/ TkInc \/ TkDecide

InitRace == TrackerInit /\ RaceInit /\ PwIdle /\ CasIdle /\ DetIdle /\ ProcIdle /\ LoopIdle /\ ShutIdle /\ SweepIdle /\ OrganizedIdle

RaceSpec == InitRace /\ [][RaceNext]_vars

\* C6 (as stated): accesses to the pending-file mapping by the callbacks and
\* by the tick are serialized: no callback fails on an entry the tick has
\* just deleted, and no update of an entry's stable count or baseline is
\* lost or applied to a stale entry.
C6_Serialized ==
    /\ ~rflags.cbFailed
    /\ ~rflags.lostUpdate
    /\ ~rflags.staleUpdate

(***************************************************************************)
(* PwSpec: the password parser of src/src/helper.py. A file name is a      *)
(* sequence of one-character strings.                                      *)
(***************************************************************************)
\* \s of the regular expressions (the modelled alphabet has one blank)
IsSpace(c) == c = " "

\* re.IGNORECASE on the letters of the literal "pass-"
Lower(c) ==
    CASE c = "P" -> "p"
      [] c = "A" -> "a"
      [] c = "S" -> "s"
      [] OTHER -> c

MarkerLit == <<"p", "a", "s", "s", "-">>

\* the index of the first character at or after i that is no blank
RECURSIVE SkipSpaces(_, _)
SkipSpaces(s, i) ==
    IF i <= Len(s) /\ IsSpace(s[i]) THEN SkipSpaces(s, i + 1) ELSE i

\* pass- (any letter case) at s[i..i+4]
LitAt(s, i) ==
    /\ i + 4 <= Len(s)
    /\ \A k \in 1..5 : Lower(s[i + k - 1]) = MarkerLit[k]

\* the index of the first ")" at or after i, 0 when there is none
RECURSIVE FindClose(_, _)
FindClose(s, i) ==
    IF i > Len(s) THEN 0
    ELSE IF s[i] = ")" THEN i
    ELSE FindClose(s, i + 1)

\* One group \([^)]+\)\s* at i: the index after it, 0 when none matches.
GroupEnd(s, i) ==
    IF i <= Len(s) /\ s[i] = "("
    THEN LET c == FindClose(s, i + 1)
         IN IF c > i + 1 THEN SkipSpaces(s, c + 1) ELSE 0
    ELSE 0

\* (?:\([^)]+\)\s*)+ at i, greedy: the index after it, 0 when none matches.
RECURSIVE GroupsEnd(_, _)
GroupsEnd(s, i) ==
    LET e == GroupEnd(s, i) IN
    IF e = 0 THEN 0
    ELSE LET more == GroupsEnd(s, e) IN IF more = 0 THEN e ELSE more

\* pattern = r"\s+pass-((?:\([^)]+\)\s*)+)" matched at i: the index after
\* the match, 0 when it does not match there.
MatchEnd(s, i) ==
    IF i <= Len(s) /\ IsSpace(s[i])
    THEN LET j == SkipSpaces(s, i)
         IN IF LitAt(s, j) THEN GroupsEnd(s, j + 5) ELSE 0
    ELSE 0

\* re.search(pattern, ...): the leftmost index at or after i where the
\* pattern matches, 0 when there is none.
RECURSIVE Search(_, _)
Search(s, i) ==
    IF i > Len(s) THEN 0
    ELSE IF MatchEnd(s, i) # 0 THEN i
    ELSE Search(s, i + 1)

\* re.findall(r"\(([^)]+)\)", ...) from index i
RECURSIVE FindAll(_, _)
FindAll(s, i) ==
    IF i > Len(s) THEN << >>
    ELSE IF s[i] = "(" /\ FindClose(s, i + 1) > i + 1
         THEN <<SubSeq(s, i + 1, FindClose(s, i + 1) - 1)>>
              \o FindAll(s, FindClose(s, i + 1) + 1)
         ELSE FindAll(s, i + 1)

\* re.sub(pattern, repl, ...) from index i: every match is replaced.
RECURSIVE Sub(_, _, _)
Sub(s, i, repl) ==
    IF i > Len(s) THEN << >>
    ELSE IF MatchEnd(s, i) # 0
         THEN repl \o Sub(s, MatchEnd(s, i), repl)
         ELSE <<s[i]>> \o Sub(s, i + 1, repl)

\* " ".join([f"({pwd})" for pwd in remaining_passwords])
RECURSIVE JoinParen(_)
JoinParen(ps) ==
    IF ps = << >> THEN << >>
    ELSE <<"(">> \o Head(ps) \o <<")">>
         \o (IF Len(ps) > 1 THEN <<" ">> \o JoinParen(Tail(ps)) ELSE << >>)

\* _extract_password_from_filename: (password, clean_filename)
ExtractPassword(name) ==
    LET i == Search(name, 1) IN
    IF i = 0 THEN [password |-> NoPassword, name |-> name]
    ELSE LET j == SkipSpaces(name, i)
             found == FindAll(SubSeq(name, j + 5, MatchEnd(name, i) - 1), 1)
         IN IF found = << >> THEN [password |-> NoPassword, name |-> name]
            ELSE [password |-> Password(Head(found)),
                  name |-> Sub(name, 1,
                               IF Tail(found) # << >>
                               THEN <<" ">> \o MarkerLit \o JoinParen(Tail(found))
                               ELSE << >>)]

(***************************************************************************)
(* The file names PwSpec starts from.                                      *)
(***************************************************************************)
BaseName == <<"R", "J", "1", "2", "3", "4", "5", "6">>
Ext == <<".", "z", "i", "p">>
Markers == {<<" ">> \o MarkerLit, <<" ", "P", "A", "S", "S", "-">>}

\* A token is bare, or parenthesized; a token with a blank, or empty, is
\* parenthesized.
Tokens ==
    { [text |-> <<"a">>, paren |-> FALSE],
      [text |-> <<"d">>, paren |-> FALSE],
      [text |-> <<"a">>, paren |-> TRUE],
      [text |-> <<"b", " ", "c">>, paren |-> TRUE],
      [text |-> <<"d">>, paren |-> TRUE],
      [text |-> << >>, paren |-> TRUE] }

Render(t) == IF t.paren THEN <<"(">> \o t.text \o <<")">> ELSE t.text

RECURSIVE RenderAll(_)
RenderAll(ts) ==
    IF ts = << >> THEN << >>
    ELSE Render(Head(ts))
         \o (IF Len(ts) > 1 THEN <<" ">> \o RenderAll(Tail(ts)) ELSE << >>)

FileNameOf(g) ==
    IF g.tokens = << >> THEN BaseName \o Ext
    ELSE BaseName \o g.marker \o RenderAll(g.tokens) \o Ext

Chains == UNION {[1..n -> Tokens] : n \in 1..MaxTokens}

PwInit ==
    /\ pwGen \in {[marker |-> << >>, tokens |-> << >>]}
                 \cup {[marker |-> m, tokens |-> c] : m \in Markers, c \in Chains}
    /\ pwName = FileNameOf(pwGen)
    /\ pwRes = NoPassword
    /\ pwStep = 0

\* One more application of the parser to its own cleaned output.
PwExtract ==
    /\ pwStep <= Len(pwGen.tokens)
    /\ pwRes' = ExtractPassword(pwName).password
    /\ pwName' = ExtractPassword(pwName).name
    /\ pwStep' = pwStep + 1
    /\ UNCHANGED <<pwGen, trackerVars, raceVars, casVars, detVars, procVars, loopVars, shutVars, sweepVars, organizedVars>>

PwNext == PwExtract

InitPw == TrackerInit /\ RaceInit /\ PwInit /\ CasIdle /\ DetIdle /\ ProcIdle /\ LoopIdle /\ ShutIdle /\ SweepIdle /\ OrganizedIdle

PwSpec == InitPw /\ [][PwNext]_vars

(***************************************************************************)
(* Claims about the password parser.                                       *)
(***************************************************************************)
\* The re-serialization the claims describe: tokens in order, separated by
\* one blank, a token containing whitespace (or empty) parenthesized.
Reserialized(t) ==
    IF t.text = << >> \/ \E k \in 1..Len(t.text) : IsSpace(t.text[k])
    THEN <<"(">> \o t.text \o <<")">>
    ELSE t.text

RECURSIVE ReserializedAll(_)
ReserializedAll(ts) ==
    IF ts = << >> THEN << >>
    ELSE Reserialized(Head(ts))
         \o (IF Len(ts) > 1 THEN <<" ">> \o ReserializedAll(Tail(ts)) ELSE << >>)

\* The cleaned name the claims describe for the remaining tokens ts, the
\* marker spelled as in the input or in lower case.
CleanNames(ts) ==
    IF ts = << >> THEN {BaseName \o Ext}
    ELSE {BaseName \o m \o ReserializedAll(ts) \o Ext :
             m \in {pwGen.marker, <<" ">> \o MarkerLit}}

\* C7 (as stated): for a file name whose marker is followed by one or more
\* tokens, bare or parenthesized, the parser returns the first token as the
\* password and a name in which the marker segment is replaced by the
\* remaining tokens re-serialized in order, or removed when none remains.
C7_FirstTokenAndCleanName ==
    (pwStep = 1 /\ pwGen.tokens # << >>)
    => /\ pwRes = Password(pwGen.tokens[1].text)
       /\ pwName \in CleanNames(Tail(pwGen.tokens))

\* C8 (as stated): for a file name carrying N tokens, repeated application
\* of the parser to its own cleaned output returns token 1, ..., token N in
\* order; after N applications the marker is absent, and a further
\* application returns no password and the name unchanged.
C8_PeelsTokensInOrder ==
    LET n == Len(pwGen.tokens) IN
    /\ (pwStep >= 1 /\ pwStep <= n) => pwRes = Password(pwGen.tokens[pwStep].text)
    /\ (pwStep >= 1 /\ pwStep >= n) => pwName = BaseName \o Ext
    /\ (pwStep >= 1 /\ pwStep > n) => pwRes = NoPassword

\* C9 (as stated): "RJ123456 pass-().zip" yields the empty string as the
\* password, distinct from no password, and the name "RJ123456.zip".
C9_EmptyGroupIsEmptyPassword ==
    (/\ pwStep = 1
     /\ pwGen = [marker |-> <<" ">> \o MarkerLit,
                 tokens |-> <<[text |-> << >>, paren |-> TRUE]>>])
    => /\ pwRes = Password(<< >>)
       /\ pwRes # NoPassword
       /\ pwName = BaseName \o Ext

(***************************************************************************)
(* CascadeSpec: process_archive and the archives-only rule of              *)
(* _apply_rules (src/src/helper.py). The archive of every level extracts   *)
(* to one nested archive and nothing else; its detected type is its        *)
(* suffix, so the extension is never rewritten.                            *)
(***************************************************************************)
\* archive_file.stem and archive_file.suffix of the extracted archive
InnerStem == <<"i", "n">>
InnerSuffix == Ext

\* lit occurs in s (the Python operator "in" on strings)
Contains(s, lit) ==
    \E i \in 1..Len(s) :
        /\ i + Len(lit) - 1 <= Len(s)
        /\ SubSeq(s, i, i + Len(lit) - 1) = lit

\* the index of the first "." at or after i, Len(s) + 1 when there is none
RECURSIVE FindDot(_, _)
FindDot(s, i) ==
    IF i > Len(s) THEN Len(s) + 1
    ELSE IF s[i] = "." THEN i
    ELSE FindDot(s, i + 1)

\* str.strip()
RECURSIVE Strip(_)
Strip(s) ==
    IF s = << >> THEN s
    ELSE IF IsSpace(Head(s)) THEN Strip(Tail(s))
    ELSE IF IsSpace(s[Len(s)]) THEN Strip(SubSeq(s, 1, Len(s) - 1))
    ELSE s

\* pass_pattern = r"\s+pass-([^.]+)" matched at i (any letter case)
TailMatchAt(s, i) ==
    /\ i <= Len(s)
    /\ IsSpace(s[i])
    /\ LitAt(s, SkipSpaces(s, i))
    /\ SkipSpaces(s, i) + 5 <= Len(s)
    /\ s[SkipSpaces(s, i) + 5] # "."

\* re.search(pass_pattern, ...) from index i: the leftmost match, 0 if none
RECURSIVE TailSearch(_, _)
TailSearch(s, i) ==
    IF i > Len(s) THEN 0
    ELSE IF TailMatchAt(s, i) THEN i
    ELSE TailSearch(s, i + 1)

\* match.group(1).strip() of the match at i
TailGroup(s, i) ==
    LET b == SkipSpaces(s, i) + 5
    IN Strip(SubSeq(s, b, FindDot(s, b) - 1))

\* "if password:" is false for None and for the empty string
Truthy(pw) == pw.some /\ pw.text # << >>

\* process_archive, lines 249-267: the password used for the extraction
\* and the name the archive is renamed to before it is extracted.
ProcessName(name) ==
    LET r == ExtractPassword(name) IN
    [password |-> r.password,
     name |-> IF Truthy(r.password) THEN r.name ELSE name]

\* _apply_rules, lines 604-635: target_path.name of the nested archive,
\* computed from archive_path.name, the name process_archive renamed to.
NestedName(original_name) ==
    LET has_remaining_passwords == Contains(original_name, <<" ">> \o MarkerLit)
        remaining_filename == ExtractPassword(original_name).name
        m == TailSearch(remaining_filename, 1)
    IN IF has_remaining_passwords /\ m # 0
       THEN InnerStem \o <<" ">> \o MarkerLit
            \o TailGroup(remaining_filename, m) \o InnerSuffix
       ELSE InnerStem \o InnerSuffix

\* The chains of CascadeSpec: tokens the parser recognises.
ParenTokens == {t \in Tokens : t.paren /\ t.text # << >>}

CasChains == UNION {[1..n -> ParenTokens] : n \in 1..MaxTokens}

CasInit ==
    /\ casGen \in {[marker |-> << >>, tokens |-> << >>]}
                  \cup {[marker |-> m, tokens |-> c] : m \in Markers, c \in CasChains}
    /\ casName = FileNameOf(casGen)
    /\ casPw = NoPassword
    /\ casNested = << >>
    /\ casLevel = 1
    /\ casPc = "new"

\* process_archive on the outer archive, up to the extraction
ProcessArchive ==
    /\ casPc = "new"
    /\ casPw' = ProcessName(casName).password
    /\ casName' = ProcessName(casName).name
    /\ casPc' = "extracted"
    /\ UNCHANGED <<casGen, casNested, casLevel, trackerVars, raceVars, pwVars, detVars, procVars, loopVars, shutVars, sweepVars, organizedVars>>

\* _apply_rules: the extracted items are archives only; the nested archive
\* is moved to the work directory under its new name.
ApplyRules ==
    /\ casPc = "extracted"
    /\ casNested' = NestedName(casName)
    /\ casPc' = "moved"
    /\ UNCHANGED <<casGen, casName, casPw, casLevel, trackerVars, raceVars, pwVars, detVars, procVars, loopVars, shutVars, sweepVars, organizedVars>>

\* _apply_rules, line 640: self.process_archive(target_path), up to the
\* extraction of the nested archive
ProcessNested ==
    /\ casPc = "moved"
    /\ casLevel < MaxDepth
    /\ casPw' = ProcessName(casNested).password
    /\ casName' = ProcessName(casNested).name
    /\ casNested' = << >>
    /\ casLevel' = casLevel + 1
    /\ casPc' = "extracted"
    /\ UNCHANGED <<casGen, trackerVars, raceVars, pwVars, detVars, procVars, loopVars, shutVars, sweepVars, organizedVars>>

CascadeNext ==
    \/ ProcessArchive
    \/ ApplyRules
    \/ ProcessNested

InitCascade == TrackerInit /\ RaceInit /\ PwIdle /\ CasInit /\ DetIdle /\ ProcIdle /\ LoopIdle /\ ShutIdle /\ SweepIdle /\ OrganizedIdle

CascadeSpec == InitCascade /\ [][CascadeNext]_vars

(***************************************************************************)
(* Claim about the cascade.                                                *)
(***************************************************************************)
\* The names the claim allows for a nested archive that carries tokens ts.
NestedNames(ts) ==
    {InnerStem \o m \o body \o InnerSuffix :
        m \in {casGen.marker, <<" ">> \o MarkerLit},
        body \in {ReserializedAll(ts), RenderAll(ts)}}

\* C10 (as stated): when an archive whose original name carries N >= 2
\* tokens extracts to archives only, the nested archive is moved under a
\* name carrying tokens 2..N in order, none dropped, and the archive of
\* nesting level L is opened with token L of the chain.
C10_NestedCarriesRestOfChain ==
    LET n == Len(casGen.tokens) IN
    n >= 2 =>
      /\ (casPc = "moved" /\ casLevel = 1)
            => casNested \in NestedNames(Tail(casGen.tokens))
      /\ (casPc = "extracted" /\ casLevel <= n)
            => casPw = Password(casGen.tokens[casLevel].text)

(***************************************************************************)
(* DetectSpec: ArchiveProcessor._detect_file_type and                      *)
(* _detect_by_magic_bytes (src/src/helper.py). A header is the sequence of *)
(* the leading bytes of a file; it is not readable when open() raises.     *)
(***************************************************************************)
\* helper.py:35  self.supported_formats
supported_formats == {".zip", ".rar", ".7z"}

\* str.lower() on the suffixes of the model
SuffixLower(sfx) ==
    CASE sfx = ".ZIP" -> ".zip"
      [] sfx = ".Zip" -> ".zip"
      [] sfx = ".RAR" -> ".rar"
      [] sfx = ".7Z" -> ".7z"
      [] sfx = ".TXT" -> ".txt"
      [] OTHER -> sfx

\* helper.py:38-45  self.magic_signatures, in insertion order
magic_signatures ==
    << [sig |-> <<80, 75, 3, 4>>, type |-> ".zip"],
       [sig |-> <<80, 75, 5, 6>>, type |-> ".zip"],
       [sig |-> <<80, 75, 7, 8>>, type |-> ".zip"],
       [sig |-> <<82, 97, 114, 33, 26, 7, 0>>, type |-> ".rar"],
       [sig |-> <<82, 97, 114, 33, 26, 7, 1, 0>>, type |-> ".rar"],
       [sig |-> <<55, 122, 188, 175, 39, 28>>, type |-> ".7z"] >>

\* bytes.startswith
StartsWith(bytes, sig) ==
    /\ Len(bytes) >= Len(sig)
    /\ SubSeq(bytes, 1, Len(sig)) = sig

\* the loop of helper.py:148-153: the type of the first signature, from
\* index i on, that the header starts with, "none" when there is none
RECURSIVE FirstSignature(_, _)
FirstSignature(header, i) ==
    IF i > Len(magic_signatures) THEN "none"
    ELSE IF StartsWith(header, magic_signatures[i].sig)
         THEN magic_signatures[i].type
         ELSE FirstSignature(header, i + 1)

\* magic.from_buffer(header, mime=True), helper.py:159-166: the library
\* names a type by the leading bytes of the buffer.
MimeType(header) ==
    IF StartsWith(header, <<80, 75, 3, 4>>) THEN ".zip"
    ELSE IF StartsWith(header, <<55, 122, 188, 175, 39, 28>>) THEN ".7z"
    ELSE "none"

\* _is_zip_file, _is_rar_file, _is_7z_file (helper.py:173-180)
ManualSignature(header) ==
    IF \E s \in {<<80, 75, 3, 4>>, <<80, 75, 5, 6>>, <<80, 75, 7, 8>>} :
           StartsWith(header, s)
    THEN ".zip"
    ELSE IF \E s \in {<<82, 97, 114, 33, 26, 7, 0>>,
                      <<82, 97, 114, 33, 26, 7, 1, 0>>} : StartsWith(header, s)
    THEN ".rar"
    ELSE IF StartsWith(header, <<55, 122, 188, 175, 39, 28>>) THEN ".7z"
    ELSE "none"

\* _detect_by_magic_bytes
DetectByMagicBytes(header, magic) ==
    IF ~header.readable THEN "none"
    ELSE IF FirstSignature(header.bytes, 1) # "none"
    THEN FirstSignature(header.bytes, 1)
    ELSE IF magic /\ MimeType(header.bytes) # "none" THEN MimeType(header.bytes)
    ELSE ManualSignature(header.bytes)

\* A variant that sniffs the bytes before it looks at the extension.
DetectFileTypeBytesFirst(f, magic) ==
    IF f.kind # "file" THEN NotArchive
    ELSE IF DetectByMagicBytes(f.header, magic) # "none"
    THEN [type |-> DetectByMagicBytes(f.header, magic), read |-> TRUE]
    ELSE [type |-> IF SuffixLower(f.suffix) \in supported_formats
                   THEN SuffixLower(f.suffix) ELSE "none",
          read |-> TRUE]

\* _detect_file_type
DetectFileType(f, magic) ==
    IF f.kind = "dir" THEN NotArchive
    ELSE IF f.kind # "file" THEN NotArchive
    ELSE IF SuffixLower(f.suffix) \in supported_formats
    THEN [type |-> SuffixLower(f.suffix), read |-> FALSE]
    ELSE [type |-> DetectByMagicBytes(f.header, magic), read |-> TRUE]

\* A filter that lets every regular file through.
IsArchiveFileAnyFile(f, magic) == f.kind = "file"

\* ArchiveEventHandler._is_archive_file, monitor.py:57-73: a supported
\* extension in any letter case; without any suffix, what _detect_file_type
\* says; with another suffix, no.
IsArchiveFile(f, magic) ==
    IF SuffixLower(f.suffix) \in {".zip", ".rar", ".7z"} THEN TRUE
    ELSE IF f.suffix = "" THEN DetectFileType(f, magic).type # "none"
    ELSE FALSE

\* The paths DetectSpec starts from.
Suffixes == {".zip", ".ZIP", ".Zip", ".rar", ".RAR", ".7z", ".7Z", ".txt", ".TXT", ""}

HeaderBytes ==
    { <<80, 75, 3, 4, 20>>, <<80, 75, 5, 6>>, <<80, 75, 7, 8>>,
      <<82, 97, 114, 33, 26, 7, 0, 9>>, <<82, 97, 114, 33, 26, 7, 1, 0>>,
      <<82, 97, 114, 33, 26, 7, 1>>,
      <<55, 122, 188, 175, 39, 28, 0>>, <<55, 122, 188>>,
      <<80, 75>>, <<104, 105>>, << >> }

Headers ==
    {[readable |-> TRUE, bytes |-> b] : b \in HeaderBytes}
    \cup {[readable |-> FALSE, bytes |-> <<80, 75, 3, 4, 20>>]}

DetInit ==
    /\ dtFile \in [kind : {"dir", "file", "other"},
                   suffix : Suffixes,
                   header : Headers]
    /\ dtMagic \in BOOLEAN
    /\ dtRes = NotArchive
    /\ dtPc = "new"

DetectCall ==
    /\ dtPc = "new"
    /\ dtRes' = DetectFileType(dtFile, dtMagic)
    /\ dtPc' = "done"
    /\ UNCHANGED <<dtFile, dtMagic, trackerVars, raceVars, pwVars, casVars, procVars, loopVars, shutVars, sweepVars, organizedVars>>

DetectNext == DetectCall

InitDetect == TrackerInit /\ RaceInit /\ PwIdle /\ CasIdle /\ DetInit /\ ProcIdle /\ LoopIdle /\ ShutIdle /\ SweepIdle /\ OrganizedIdle

DetectSpec == InitDetect /\ [][DetectNext]_vars

(***************************************************************************)
(* Claim about type detection.                                             *)
(***************************************************************************)
\* the signatures the claim speaks of, by kind
SignatureKinds(header) ==
    {magic_signatures[i].type :
        i \in {k \in 1..Len(magic_signatures) :
                  /\ header.readable
                  /\ StartsWith(header.bytes, magic_signatures[k].sig)}}

\* C20: type detection classifies a directory as not an archive; a file
\* whose extension is .zip, .rar or .7z in any letter case by that
\* extension, without reading its bytes; and a file with any other or no
\* extension by the signature of its leading bytes, not-an-archive when no
\* signature matches.
C20_ExtensionThenSignature ==
    dtPc = "done" =>
      /\ dtFile.kind = "dir" => dtRes = NotArchive
      /\ (dtFile.kind = "file" /\ SuffixLower(dtFile.suffix) \in supported_formats)
            => dtRes = [type |-> SuffixLower(dtFile.suffix), read |-> FALSE]
      /\ (dtFile.kind = "file" /\ SuffixLower(dtFile.suffix) \notin supported_formats)
            => /\ dtRes.read
               /\ SignatureKinds(dtFile.header) = {} => dtRes.type = "none"
               /\ SignatureKinds(dtFile.header) # {}
                     => dtRes.type \in SignatureKinds(dtFile.header)

\* C20 witness: a file without extension, decided by its signature.
C20_Witness ==
    /\ dtPc = "done"
    /\ dtFile.kind = "file"
    /\ dtFile.suffix = ""
    /\ dtFile.header = [readable |-> TRUE, bytes |-> <<82, 97, 114, 33, 26, 7, 1, 0>>]
    /\ dtRes = [type |-> ".rar", read |-> TRUE]

(***************************************************************************)
(* ProcSpec, ProcFaultSpec: ArchiveProcessor.process_archive with its      *)
(* rule engine _apply_rules and the handlers of the dispositions           *)
(* (src/src/helper.py). Names are sequences of characters; a directory     *)
(* (the watch root, the scratch directory) is a function from the names of *)
(* its entries to the entries. In ProcSpec every filesystem call succeeds  *)
(* and only the extraction can fail; in ProcFaultSpec a rename, a mkdir, a *)
(* move or the unlink of the archive can raise as well.                    *)
(***************************************************************************)
\* the entries f with name n added or replaced, and with name n removed
Put(f, n, e) == [x \in (DOMAIN f) \cup {n} |-> IF x = n THEN e ELSE f[x]]
Del(f, n) == [x \in (DOMAIN f) \ {n} |-> f[x]]

\* the index of the last "." of name at or before i, 0 when there is none
RECURSIVE LastDot(_, _)
LastDot(name, i) ==
    IF i < 1 THEN 0
    ELSE IF name[i] = "." THEN i
    ELSE LastDot(name, i - 1)

\* pathlib: Path.suffix, Path.stem, Path.with_suffix
SuffixOf(name) ==
    LET i == LastDot(name, Len(name))
    IN IF i > 1 /\ i < Len(name) THEN SubSeq(name, i, Len(name)) ELSE << >>

StemOf(name) == SubSeq(name, 1, Len(name) - Len(SuffixOf(name)))

WithSuffix(name, sfx) == StemOf(name) \o sfx

\* str.startswith("RJ")
StartsWithRJ(name) == Len(name) >= 2 /\ name[1] = "R" /\ name[2] = "J"

\* the suffix of a name as _detect_file_type compares it, and back
SuffixString(sfx) ==
    CASE sfx = << >> -> ""
      [] sfx = <<".", "z", "i", "p">> -> ".zip"
      [] sfx = <<".", "r", "a", "r">> -> ".rar"
      [] sfx = <<".", "7", "z">> -> ".7z"
      [] OTHER -> ".txt"

TypeChars(type) ==
    CASE type = ".zip" -> <<".", "z", "i", "p">>
      [] type = ".rar" -> <<".", "r", "a", "r">>
      [] type = ".7z" -> <<".", "7", "z">>
      [] OTHER -> << >>

\* import magic raises ImportError: the library is an optional dependency
MagicInstalled == FALSE

\* _detect_file_type on the entry e named n
EntryType(n, e) ==
    DetectFileType([kind |-> e.kind,
                    suffix |-> SuffixString(SuffixOf(n)),
                    header |-> e.header], MagicInstalled).type

\* f"{name}_{counter}"
DigitChars == <<"1", "2", "3", "4", "5", "6", "7", "8", "9">>
Numbered(name, counter) == name \o <<"_", DigitChars[counter]>>

\* A counter loop that stops at its first candidate, free or not.
NumberedFirst(dir, name, counter) == Numbered(name, counter)

\* the loops of helper.py:707-711, 736-740, 765-769: name when it is free
\* in the directory, else the first of name_1, name_2, ... that is free
RECURSIVE NumberedFree(_, _, _)
NumberedFree(dir, name, counter) ==
    IF Numbered(name, counter) \notin DOMAIN dir THEN Numbered(name, counter)
    ELSE NumberedFree(dir, name, counter + 1)

\* A destination that is the name itself, taken or not.
FreeNameTaken(dir, name) == name

FreeName(dir, name) ==
    IF name \notin DOMAIN dir THEN name ELSE NumberedFree(dir, name, 1)

\* datetime.now().strftime("%Y%m%d")
DateStr == <<"2", "0", "2", "6", "1", "1", "0", "3">>

\* target_dir_name = f"{date_str}-{archive_name}"
QuarantineName(archive_name) == DateStr \o <<"-">> \o archive_name

\* log_file = target_dir / "processing_log.txt"
ManifestName ==
    <<"p", "r", "o", "c", "e", "s", "s", "i", "n", "g", "_", "l", "o", "g",
      ".", "t", "x", "t">>

(***************************************************************************)
(* Entries. from tells where an entry comes from: "pre" (in the watch root *)
(* before the call), "archive" (the archive handed in), "extracted" (out   *)
(* of the archive) or "made" (created by the processor); src is the name   *)
(* it had there; items maps the names inside a directory the processor     *)
(* filled to where each comes from.                                        *)
(***************************************************************************)
NoBytes == [readable |-> FALSE, bytes |-> << >>]
ZipBytes == [readable |-> TRUE, bytes |-> <<80, 75, 3, 4, 20>>]
TextBytes == [readable |-> TRUE, bytes |-> <<104, 105>>]

DirEntry(from, src) ==
    [kind |-> "dir", header |-> NoBytes, from |-> from, src |-> src,
     items |-> NoEntries]

FileEntry(from, src, header) ==
    [kind |-> "file", header |-> header, from |-> from, src |-> src,
     items |-> NoEntries]

\* what an archive of the model may hold at its top level
Catalog ==
    LET rj1 == <<"R", "J", "1">>
        rj2 == <<"R", "J", "2">>
        au == <<"a", "u">>
        mu == <<"m", "u">>
        txt == <<"r", ".", "t", "x", "t">>
        inz == InnerStem \o InnerSuffix
        blob == <<"b", "l", "o", "b">>
        wkz == <<"w", "k">> \o Ext
    IN [n \in {rj1, rj2, au, mu, txt, inz, blob, wkz, ManifestName} |->
          IF n \in {rj1, rj2, au, mu} THEN DirEntry("extracted", n)
          ELSE IF n \in {txt, ManifestName} THEN FileEntry("extracted", n, TextBytes)
          ELSE FileEntry("extracted", n, ZipBytes)]

Contents ==
    {[n \in S |-> Catalog[n]] :
        S \in {T \in SUBSET DOMAIN Catalog : Cardinality(T) <= MaxEntries}}

\* what the watch root may hold before the call, besides the archive
PreCatalog ==
    LET rj1 == <<"R", "J", "1">>
        rj999 == <<"R", "J", "9", "9", "9">>
        wkz == <<"w", "k">> \o Ext
    IN [n \in {rj1, rj999, Numbered(rj999, 1), QuarantineName(rj999), wkz} |->
          IF n = wkz THEN FileEntry("pre", n, ZipBytes) ELSE DirEntry("pre", n)]

PreContents ==
    {[n \in S |-> PreCatalog[n]] :
        S \in {T \in SUBSET DOMAIN PreCatalog : Cardinality(T) <= MaxPre}}

\* the file names of the archives handed in
ArchiveStems == {<<"R", "J", "9", "9", "9">>, <<"w", "k">>}

ArchiveMarkers ==
    { << >>,
      <<" ">> \o MarkerLit \o <<"(", "a", ")">>,
      <<" ">> \o MarkerLit \o <<"(", "a", ")", " ", "(", "b", ")">> }

ArchiveNames ==
    {s \o m \o x : s \in ArchiveStems, m \in ArchiveMarkers, x \in {Ext, << >>}}

ProcInit ==
    /\ paGen \in [name : ArchiveNames, content : Contents, pre : PreContents]
    /\ paGen.name \notin DOMAIN paGen.pre
    /\ paRoot = Put(paGen.pre, paGen.name,
                    FileEntry("archive", paGen.name, ZipBytes))
    /\ paScratch = NoEntries
    /\ paPath = paGen.name
    /\ paPw = NoPassword
    /\ paDisp = "none"
    /\ paOut = NoOutcome
    /\ paPc = "start"

\* Path.rename(new): the entry moves to the new name and replaces a file
\* that has it; renaming onto a directory raises.
CanRename(root, new) == new \notin DOMAIN root \/ root[new].kind = "file"

Rename(root, old, new) == Put(Del(root, old), new, root[old])

\* the return statements of process_archive; "except Exception" at
\* helper.py:317-319 turns every exception into the result False
Returned(result, fault) ==
    [result |-> result, raised |-> FALSE, fault |-> fault, failed |-> {}]

\* A rule engine that looks at the folder names before it looks for
\* entries that are no folders.
DispositionFoldersFirst(items, archive_name) ==
    LET folders == {n \in DOMAIN items : items[n].kind = "dir"}
    IN IF \A f \in folders : StartsWithRJ(f) THEN "KeepAsIs"
       ELSE IF Cardinality(folders) = 1 /\ StartsWithRJ(archive_name)
            THEN "RenameSingleFolder"
       ELSE "Quarantine"

\* _apply_rules, helper.py:581-691: the rule that matches the extracted
\* entries items for an archive whose stem is archive_name
Disposition(items, archive_name) ==
    LET archive_files == {n \in DOMAIN items : EntryType(n, items[n]) # "none"}
        other_files == (DOMAIN items) \ archive_files
        non_dir_items == {n \in DOMAIN items : items[n].kind # "dir"}
        folders == {n \in DOMAIN items : items[n].kind = "dir"}
    IN IF archive_files # {} /\ other_files = {} THEN "CascadeArchives"
       ELSE IF archive_files # {} /\ other_files # {} THEN "Quarantine"
       ELSE IF non_dir_items # {} THEN "Quarantine"
       ELSE IF \A f \in folders : StartsWithRJ(f) THEN "KeepAsIs"
       ELSE IF /\ Cardinality(folders) = 1
               /\ \A f \in folders : ~StartsWithRJ(f)
               /\ StartsWithRJ(archive_name)
            THEN "RenameSingleFolder"
       ELSE IF Cardinality(folders) > 1 /\ \E f \in folders : ~StartsWithRJ(f)
            THEN "Quarantine"
       ELSE "Quarantine"

\* _handle_rj_folders, helper.py:702-719: the folders S moved one by one,
\* each to the first free name
RECURSIVE KeepMoves(_, _, _)
KeepMoves(root, items, S) ==
    IF S = {} THEN root
    ELSE LET n == CHOOSE x \in S : TRUE
         IN KeepMoves(Put(root, FreeName(root, n), items[n]), items, S \ {n})

\* _handle_rj_folders: moved are the folders moved before the handler
\* returned; it returns False when a move raised
HandleRjFolders(root, items, moved, fault) ==
    [root |-> KeepMoves(root, items, moved), ok |-> fault = "none"]

\* A handler that moves the folder under the name it has in the archive.
HandleSingleFolderKeepName(root, items, folder, new_name, fault) ==
    [root |-> Put(root, folder, items[folder]), ok |-> TRUE]

\* _handle_single_folder_rename: the folder moved to the first free name
\* among new_name, new_name_1, ...; False when the move raised
HandleSingleFolderRename(root, items, folder, new_name, fault) ==
    IF fault = "none"
    THEN [root |-> Put(root, FreeName(root, new_name), items[folder]), ok |-> TRUE]
    ELSE [root |-> root, ok |-> FALSE]

\* _handle_mixed_content and _create_processing_log: a new folder
\* <date>-<archive stem> (first free name) receives the entries moved, then
\* open(log_file, "w") writes the manifest, replacing a file of that name;
\* moved are the entries moved before the handler returned. A failure to
\* write the manifest is logged and the handler returns True.
HandleMixedContent(root, items, archive_name, moved, fault) ==
    IF fault = "mkdir" THEN [root |-> root, ok |-> FALSE]
    ELSE LET target_dir == FreeName(root, QuarantineName(archive_name))
             entries == [n \in moved |-> "extracted"]
             inside == IF fault = "none"
                       THEN Put(entries, ManifestName, "made") ELSE entries
         IN [root |-> Put(root, target_dir,
                          [kind |-> "dir", header |-> NoBytes, from |-> "made",
                           src |-> target_dir, items |-> inside]),
             ok |-> fault \in {"none", "manifest"}]

\* _apply_rules, helper.py:613-635: target_path.name of the nested archive
\* file_name, computed from archive_path.name
NestedTarget(original_name, file_name) ==
    LET has_remaining_passwords == Contains(original_name, <<" ">> \o MarkerLit)
        remaining_filename == ExtractPassword(original_name).name
        m == TailSearch(remaining_filename, 1)
    IN IF has_remaining_passwords /\ m # 0
       THEN StemOf(file_name) \o <<" ">> \o MarkerLit
            \o TailGroup(remaining_filename, m) \o SuffixOf(file_name)
       ELSE file_name

\* shutil.move(src, dst): dst takes the entry, replacing a file of that
\* name; when dst is a directory the entry goes inside it.
MoveTo(root, dst, e, src_name) ==
    IF dst \in DOMAIN root /\ root[dst].kind = "dir"
    THEN Put(root, dst, [root[dst] EXCEPT !.items = Put(@, src_name, e.from)])
    ELSE Put(root, dst, e)

\* the cascade loop of _apply_rules, helper.py:609-641: each nested archive
\* of S is moved to the watch root and process_archive is called on it; a
\* nested archive in processed is consumed by that call (it deletes it),
\* any other is left where the move put it.
RECURSIVE CascadeMoves(_, _, _, _, _)
CascadeMoves(root, items, original_name, S, processed) ==
    IF S = {} THEN root
    ELSE LET n == CHOOSE x \in S : TRUE
             dst == NestedTarget(original_name, n)
             put == MoveTo(root, dst, items[n], n)
             after == IF n \in processed /\ put[dst].kind = "file"
                      THEN Del(put, dst) ELSE put
         IN CascadeMoves(after, items, original_name, S \ {n}, processed)

\* the cascade returns True whatever the nested calls returned; an
\* exception of a move is caught at helper.py:693-695
HandleCascade(root, items, original_name, moved, processed, fault) ==
    [root |-> CascadeMoves(root, items, original_name, moved, processed),
     ok |-> fault = "none"]

\* _apply_rules: the handler of the selected disposition
ApplyDisposition(d, root, items, path, moved, processed, fault) ==
    CASE d = "CascadeArchives" ->
            HandleCascade(root, items, path, moved, processed, fault)
      [] d = "KeepAsIs" -> HandleRjFolders(root, items, moved, fault)
      [] d = "RenameSingleFolder" ->
            HandleSingleFolderRename(root, items,
                CHOOSE n \in DOMAIN items : TRUE, StemOf(path), fault)
      [] OTHER -> HandleMixedContent(root, items, StemOf(path), moved, fault)

\* An extraction that unpacks into the watch root.
ExtractIntoRoot(root, scratch, got) ==
    [root |-> [n \in (DOMAIN root) \cup (DOMAIN got) |->
                 IF n \in DOMAIN got THEN got[n] ELSE root[n]],
     scratch |-> got]

\* where the extraction writes: the scratch directory
ExtractInto(root, scratch, got) == [root |-> root, scratch |-> got]

\* the faults a disposition can meet, and the entries moved before them
DispositionFaults(d) ==
    IF d = "Quarantine" THEN {"none", "mkdir", "move", "manifest"}
    ELSE {"none", "move"}

MovedBefore(items, fault) ==
    CASE fault = "move" -> (SUBSET DOMAIN items) \ {DOMAIN items}
      [] fault = "mkdir" -> {{}}
      [] OTHER -> {DOMAIN items}

(***************************************************************************)
(* The steps of process_archive.                                           *)
(***************************************************************************)
\* helper.py:217-247: stat, existence, type detection and the rename that
\* gives the file the extension of its detected type
PaDetect(renameOK) ==
    /\ paPc = "start"
    /\ LET detected_type ==
              IF paPath \in DOMAIN paRoot
              THEN EntryType(paPath, paRoot[paPath]) ELSE "none"
           new_name == WithSuffix(paPath, TypeChars(detected_type))
       IN IF detected_type = "none"
          THEN /\ paOut' = Returned("False", "none")
               /\ paPc' = "returned"
               /\ UNCHANGED <<paRoot, paPath>>
          ELSE IF SuffixString(SuffixOf(paPath)) = detected_type \/ new_name = paPath
          THEN /\ renameOK
               /\ paPc' = "named"
               /\ UNCHANGED <<paRoot, paPath, paOut>>
          ELSE IF renameOK /\ CanRename(paRoot, new_name)
          THEN /\ paRoot' = Rename(paRoot, paPath, new_name)
               /\ paPath' = new_name
               /\ paPc' = "named"
               /\ UNCHANGED paOut
          ELSE /\ paOut' = Returned("False", "rename")
               /\ paPc' = "returned"
               /\ UNCHANGED <<paRoot, paPath>>
    /\ UNCHANGED <<paGen, paScratch, paPw, paDisp>>
    /\ UNCHANGED <<trackerVars, raceVars, pwVars, casVars, detVars, loopVars, shutVars, sweepVars, organizedVars>>

\* helper.py:249-267: the password is taken from the file name and the
\* file is renamed to the name without it
PaPassword(renameOK) ==
    /\ paPc = "named"
    /\ LET r == ProcessName(paPath)
       IN /\ paPw' = r.password
          /\ IF r.name = paPath
             THEN /\ renameOK
                  /\ paPc' = "ready"
                  /\ UNCHANGED <<paRoot, paPath, paOut>>
             ELSE IF renameOK /\ CanRename(paRoot, r.name)
             THEN /\ paRoot' = Rename(paRoot, paPath, r.name)
                  /\ paPath' = r.name
                  /\ paPc' = "ready"
                  /\ UNCHANGED paOut
             ELSE /\ paOut' = Returned("False", "rename")
                  /\ paPc' = "returned"
                  /\ UNCHANGED <<paRoot, paPath>>
    /\ UNCHANGED <<paGen, paScratch, paDisp>>
    /\ UNCHANGED <<trackerVars, raceVars, pwVars, casVars, detVars, loopVars, shutVars, sweepVars, organizedVars>>

\* helper.py:269-282: extraction into a temporary directory; got are the
\* entries written when the backend stopped. A failed extraction returns
\* False and the temporary directory is removed with what it holds.
PaExtract(ok, got) ==
    /\ paPc = "ready"
    /\ got \subseteq DOMAIN paGen.content
    /\ ok => got = DOMAIN paGen.content
    /\ LET x == ExtractInto(paRoot, paScratch, [n \in got |-> paGen.content[n]])
       IN /\ paRoot' = x.root
          /\ IF ok
             THEN /\ paScratch' = x.scratch
                  /\ paPc' = "extracted"
                  /\ UNCHANGED paOut
             ELSE /\ paScratch' = NoEntries
                  /\ paOut' = Returned("False", "extract")
                  /\ paPc' = "returned"
    /\ UNCHANGED <<paGen, paPath, paPw, paDisp>>
    /\ UNCHANGED <<trackerVars, raceVars, pwVars, casVars, detVars, loopVars, shutVars, sweepVars, organizedVars>>

\* _delete_archive, helper.py:817-825: an exception of stat or unlink is
\* logged and not raised
DeleteArchive(root, path, unlinkOK) ==
    IF unlinkOK /\ path \in DOMAIN root /\ root[path].kind = "file"
    THEN Del(root, path) ELSE root

\* helper.py:286-290: nothing was extracted; the archive is deleted and
\* the result is True
PaEmpty(unlinkOK) ==
    /\ paPc = "extracted"
    /\ DOMAIN paScratch = {}
    /\ paRoot' = DeleteArchive(paRoot, paPath, unlinkOK)
    /\ paOut' = Returned("True", IF unlinkOK THEN "none" ELSE "unlink")
    /\ paPc' = "returned"
    /\ UNCHANGED <<paGen, paScratch, paPath, paPw, paDisp>>
    /\ UNCHANGED <<trackerVars, raceVars, pwVars, casVars, detVars, loopVars, shutVars, sweepVars, organizedVars>>

\* helper.py:303: result = self._apply_rules(...)
PaRules(moved, processed, fault) ==
    /\ paPc = "extracted"
    /\ DOMAIN paScratch # {}
    /\ LET d == Disposition(paScratch, StemOf(paPath))
       IN /\ fault \in DispositionFaults(d)
          /\ moved \in MovedBefore(paScratch, fault)
          /\ processed \subseteq moved
          /\ d # "CascadeArchives" => processed = {}
          /\ LET h == ApplyDisposition(d, paRoot, paScratch, paPath,
                                       moved, processed, fault)
             IN /\ paRoot' = h.root
                /\ paOut' = [result |-> IF h.ok THEN "True" ELSE "False",
                             raised |-> FALSE, fault |-> fault,
                             failed |-> IF d = "CascadeArchives"
                                        THEN moved \ processed ELSE {}]
          /\ paDisp' = d
          /\ paScratch' = [n \in (DOMAIN paScratch) \ moved |-> paScratch[n]]
    /\ paPc' = "disposed"
    /\ UNCHANGED <<paGen, paPath, paPw>>
    /\ UNCHANGED <<trackerVars, raceVars, pwVars, casVars, detVars, loopVars, shutVars, sweepVars, organizedVars>>

\* helper.py:305-315: the archive is deleted when the rules returned True;
\* the temporary directory is removed; the result is returned
PaFinish(unlinkOK) ==
    /\ paPc = "disposed"
    /\ IF paOut.result = "True"
       THEN /\ paRoot' = DeleteArchive(paRoot, paPath, unlinkOK)
            /\ paOut' = [paOut EXCEPT
                           !.fault = IF unlinkOK THEN @ ELSE "unlink"]
       ELSE /\ unlinkOK
            /\ UNCHANGED <<paRoot, paOut>>
    /\ paScratch' = NoEntries
    /\ paPc' = "returned"
    /\ UNCHANGED <<paGen, paPath, paPw, paDisp>>
    /\ UNCHANGED <<trackerVars, raceVars, pwVars, casVars, detVars, loopVars, shutVars, sweepVars, organizedVars>>

\* every filesystem call succeeds; only the extraction can fail
ProcNext ==
    \/ PaDetect(TRUE)
    \/ PaPassword(TRUE)
    \/ \E ok \in BOOLEAN, got \in SUBSET DOMAIN paGen.content : PaExtract(ok, got)
    \/ PaEmpty(TRUE)
    \/ \E processed \in SUBSET DOMAIN paScratch :
          PaRules(DOMAIN paScratch, processed, "none")
    \/ PaFinish(TRUE)

InitProc == TrackerInit /\ RaceInit /\ PwIdle /\ CasIdle /\ DetIdle /\ ProcInit /\ LoopIdle /\ ShutIdle /\ SweepIdle /\ OrganizedIdle

ProcSpec == InitProc /\ [][ProcNext]_vars

\* a rename, a mkdir, a move, the manifest or the unlink can fail as well
ProcFaultNext ==
    \/ \E renameOK \in BOOLEAN : PaDetect(renameOK)
    \/ \E renameOK \in BOOLEAN : PaPassword(renameOK)
    \/ \E ok \in BOOLEAN, got \in SUBSET DOMAIN paGen.content : PaExtract(ok, got)
    \/ \E unlinkOK \in BOOLEAN : PaEmpty(unlinkOK)
    \/ \E moved \in SUBSET DOMAIN paScratch, processed \in SUBSET DOMAIN paScratch,
          fault \in {"none", "mkdir", "move", "manifest"} :
          PaRules(moved, processed, fault)
    \/ \E unlinkOK \in BOOLEAN : PaFinish(unlinkOK)

ProcFaultSpec == InitProc /\ [][ProcFaultNext]_vars

(***************************************************************************)
(* Claims about process_archive and the rule engine.                       *)
(***************************************************************************)
\* the call has returned after the rule engine ran on the extracted entries
RulesRan == paPc = "returned" /\ paDisp # "none"

IsArchiveEntry(n) == EntryType(n, paGen.content[n]) # "none"
IsDirEntry(n) == paGen.content[n].kind = "dir"

\* the rules of the claim, in its order: the condition and the disposition
ClaimedRules ==
    LET E == DOMAIN paGen.content IN
    << [when |-> \A n \in E : IsArchiveEntry(n), then |-> "CascadeArchives"],
       [when |-> (\E n \in E : IsArchiveEntry(n)) /\ (\E n \in E : ~IsArchiveEntry(n)),
        then |-> "Quarantine"],
       [when |-> \E n \in E : ~IsDirEntry(n), then |-> "Quarantine"],
       [when |-> \A n \in E : IsDirEntry(n) /\ StartsWithRJ(n), then |-> "KeepAsIs"],
       [when |-> /\ Cardinality(E) = 1
                 /\ \A n \in E : IsDirEntry(n) /\ ~StartsWithRJ(n)
                 /\ StartsWithRJ(paGen.name),
        then |-> "RenameSingleFolder"],
       [when |-> TRUE, then |-> "Quarantine"] >>

FirstClaimedRule ==
    ClaimedRules[CHOOSE i \in 1..Len(ClaimedRules) :
                    /\ ClaimedRules[i].when
                    /\ \A j \in 1..(i - 1) : ~ClaimedRules[j].when].then

\* C11: for every non-empty set of extracted top-level entries the rule
\* engine selects exactly one disposition, the first that matches in the
\* order: all archives -> CascadeArchives; archives with other entries ->
\* Quarantine; any non-directory -> Quarantine; all directories named RJ...
\* -> KeepAsIs; one directory not named RJ... while the archive base name
\* starts with RJ -> RenameSingleFolder; anything else -> Quarantine.
C11_FirstMatchingRule ==
    (paPc \in {"disposed", "returned"} /\ paDisp # "none")
    => /\ DOMAIN paGen.content # {}
       /\ paDisp = FirstClaimedRule

\* C11 witness: the rename rule was selected for a single folder.
C11_Witness ==
    /\ paPc = "disposed"
    /\ paDisp = "RenameSingleFolder"
    /\ DOMAIN paGen.content = {<<"a", "u">>}

\* C12 (as stated): whenever process_archive fails during the extraction
\* or the disposition, the original archive is still at its original path
\* under its original file name, password marker and extension included,
\* and no exception reaches the caller.
C12_FailureLeavesArchiveUntouched ==
    (/\ paPc = "returned"
     /\ paOut.result = "False"
     /\ paOut.fault \in {"extract", "mkdir", "move"})
    => /\ paGen.name \in DOMAIN paRoot
       /\ paRoot[paGen.name].from = "archive"
       /\ ~paOut.raised

\* C13 (as stated): whenever process_archive returns success, the archive
\* it processed, under its current name, is no longer in the watch root.
C13_SuccessDeletesArchive ==
    (paPc = "returned" /\ paOut.result = "True")
    => /\ paPath \notin DOMAIN paRoot
       /\ \A n \in DOMAIN paRoot : paRoot[n].from # "archive"

\* C14: when the extraction fails nothing extracted from the archive is
\* under the watch root (the extraction writes into the scratch directory
\* only), and the rule engine runs only on a fully extracted archive.
C14_FailedExtractionLeavesRootClean ==
    /\ (paPc = "returned" /\ paOut.fault = "extract")
          => /\ \A n \in DOMAIN paRoot : paRoot[n].from \in {"pre", "archive"}
             /\ \A n \in DOMAIN paRoot :
                   paRoot[n].from = "pre" => paRoot[n] = paGen.pre[n]
             /\ paDisp = "none"
    /\ paPc = "extracted" => paScratch = paGen.content
    /\ paDisp = "none" => \A n \in DOMAIN paRoot : paRoot[n].from \in {"pre", "archive"}

\* C14 witness: an extraction that failed for an archive holding entries.
C14_Witness ==
    /\ paPc = "returned"
    /\ paOut.fault = "extract"
    /\ DOMAIN paGen.content # {}

\* the destination the claims expect for an entry meant to be called name
\* in a directory holding the names taken: name itself when it is free,
\* else name_k for the smallest k >= 1 such that name_k is free
FirstFree(taken, name) ==
    IF name \notin taken THEN name
    ELSE Numbered(name,
            CHOOSE k \in 1..Len(DigitChars) :
               /\ Numbered(name, k) \notin taken
               /\ \A j \in 1..(k - 1) : Numbered(name, j) \in taken)

\* C15: when the extracted top-level entries are all directories named
\* RJ..., process_archive returns success, each of them is directly under
\* the watch root under its own name (with a numeric suffix only when that
\* name was already there), and the source archive is deleted.
C15_RjFoldersKeptAsIs ==
    (/\ RulesRan
     /\ \A n \in DOMAIN paGen.content : IsDirEntry(n) /\ StartsWithRJ(n))
    => /\ paOut.result = "True"
       /\ \A n \in DOMAIN paGen.content :
             LET at == FirstFree(DOMAIN paGen.pre, n)
             IN /\ at \in DOMAIN paRoot
                /\ paRoot[at].from = "extracted"
                /\ paRoot[at].src = n
                /\ n \in DOMAIN paGen.pre
                      => n \in DOMAIN paRoot /\ paRoot[n] = paGen.pre[n]
       /\ paPath \notin DOMAIN paRoot

\* C15 witness: RJ1 extracted while the watch root already had an RJ1.
C15_Witness ==
    /\ RulesRan
    /\ DOMAIN paGen.content = {<<"R", "J", "1">>, <<"R", "J", "2">>}
    /\ <<"R", "J", "1">> \in DOMAIN paGen.pre
    /\ paRoot[<<"R", "J", "1", "_", "1">>].from = "extracted"

\* the case of C16: one extracted directory, not named RJ..., and an
\* archive whose base name starts with RJ
SingleFolderCase ==
    /\ RulesRan
    /\ Cardinality(DOMAIN paGen.content) = 1
    /\ \A n \in DOMAIN paGen.content : IsDirEntry(n) /\ ~StartsWithRJ(n)
    /\ StartsWithRJ(StemOf(paPath))

\* C16 (as stated): in that case the directory is moved to the watch root
\* renamed to the archive's base name, its contents are found under that
\* name, and the source archive is deleted.
C16_RenamedToBaseName ==
    SingleFolderCase
    => /\ StemOf(paPath) \in DOMAIN paRoot
       /\ paRoot[StemOf(paPath)].from = "extracted"
       /\ paRoot[StemOf(paPath)].src \in DOMAIN paGen.content
       /\ paPath \notin DOMAIN paRoot

\* C16 (amended): in that case the directory is moved to the watch root
\* under the archive's base name, or under the first free one of
\* <base name>_1, <base name>_2, ... when the base name was already there,
\* the entries that were there are left as they were, and the source
\* archive is deleted.
C16_RenamedToFreeBaseName ==
    SingleFolderCase
    => LET base == StemOf(paPath)
           at == FirstFree(DOMAIN paGen.pre, base)
       IN /\ at \in DOMAIN paRoot
          /\ paRoot[at].from = "extracted"
          /\ paRoot[at].src \in DOMAIN paGen.content
          /\ \A n \in DOMAIN paGen.pre :
                n \in DOMAIN paRoot /\ paRoot[n] = paGen.pre[n]
          /\ \A n \in DOMAIN paGen.content : n \notin (DOMAIN paRoot) \ DOMAIN paGen.pre
          /\ paPath \notin DOMAIN paRoot
          /\ paOut.result = "True"

\* C16 witness: the folder "au" of RJ999.zip arrived as RJ999_1 because
\* RJ999 was taken.
C16_Witness ==
    /\ SingleFolderCase
    /\ <<"R", "J", "9", "9", "9">> \in DOMAIN paGen.pre
    /\ StemOf(paPath) = <<"R", "J", "9", "9", "9">>
    /\ paRoot[<<"R", "J", "9", "9", "9", "_", "1">>].src = <<"a", "u">>

\* the folders the processor created under the watch root
MadeFolders == {n \in DOMAIN paRoot : paRoot[n].from = "made"}

\* C17 (as stated): when the disposition is Quarantine every extracted
\* top-level entry ends up, under its own name, inside a single folder
\* <date>-<archive base name> created under the watch root, together with
\* a manifest file; none of the entries is directly under the watch root.
C17_QuarantineHoldsEveryEntry ==
    (RulesRan /\ paDisp = "Quarantine")
    => LET q == QuarantineName(StemOf(paPath))
       IN /\ MadeFolders = {q}
          /\ \A n \in DOMAIN paGen.content :
                /\ n \in DOMAIN paRoot[q].items
                /\ paRoot[q].items[n] = "extracted"
          /\ ManifestName \in DOMAIN paRoot[q].items
          /\ paRoot[q].items[ManifestName] = "made"
          /\ \A n \in DOMAIN paRoot : paRoot[n].from # "extracted"


\* the names a disposition means to give to what it puts in the watch root
IntendedNames ==
    CASE paDisp = "KeepAsIs" -> DOMAIN paGen.content
      [] paDisp = "RenameSingleFolder" -> {StemOf(paPath)}
      [] paDisp = "Quarantine" -> {QuarantineName(StemOf(paPath))}
      [] OTHER -> {}

\* C24: KeepAsIs, RenameSingleFolder and Quarantine never move onto an
\* existing destination: when the intended name already exists under the
\* watch root, the destination used is name_k for the smallest k >= 1 such
\* that name_k does not exist, and the existing entry is left untouched.
C24_CollisionsGetSmallestFreeSuffix ==
    (paPc = "returned" /\ paOut.result = "True"
        /\ paDisp \in {"KeepAsIs", "RenameSingleFolder", "Quarantine"})
    => /\ \A i \in IntendedNames :
             LET at == FirstFree(DOMAIN paGen.pre, i)
             IN /\ at \in DOMAIN paRoot
                /\ paRoot[at].from \in {"extracted", "made"}
                /\ at \notin DOMAIN paGen.pre
       /\ \A n \in DOMAIN paGen.pre :
             paGen.pre[n].kind = "dir"
                => n \in DOMAIN paRoot /\ paRoot[n] = paGen.pre[n]

\* An archive RJ999 holding one folder was processed while RJ999 and
\* RJ999_1 were both in the watch root: the folder is at RJ999_2.
C24_Witness ==
    LET base == StemOf(paPath)
    IN /\ paPc = "returned" /\ paOut.result = "True"
       /\ paDisp = "RenameSingleFolder"
       /\ {base, Numbered(base, 1)} \subseteq DOMAIN paGen.pre
       /\ Numbered(base, 2) \in DOMAIN paRoot
       /\ paRoot[Numbered(base, 2)].from = "extracted"

\* C25 (as stated): no step of process_archive replaces or overwrites an
\* entry that already exists under the watch root: every entry that was
\* there before the call is still there, as it was.
C25_NoExistingEntryReplaced ==
    \A n \in DOMAIN paGen.pre :
        n \in DOMAIN paRoot /\ paRoot[n].from = "pre"

\* C26 (as stated): if a move raises after earlier entries of the same
\* archive were already moved, process_archive returns False, keeps the
\* archive, and leaves no entry of that archive under the watch root.
C26_FailedDispositionLeavesNothing ==
    (paPc = "returned" /\ paOut.fault = "move")
    => /\ paOut.result = "False"
       /\ paPath \in DOMAIN paRoot
       /\ paRoot[paPath].from = "archive"
       /\ \A n \in DOMAIN paRoot : paRoot[n].from \in {"pre", "archive"}

\* C27 (as stated): a cascade reports success for the outer archive and
\* the outer archive is deleted, whatever the results of the nested
\* archives; a nested archive whose own processing fails remains as a file
\* in the watch root.
C27_FailedNestedArchiveKept ==
    (paPc = "returned" /\ paDisp = "CascadeArchives")
    => /\ paOut.result = "True"
       /\ \A n \in DOMAIN paRoot : paRoot[n].from # "archive"
       /\ \A n \in paOut.failed :
             \E m \in DOMAIN paRoot :
                /\ paRoot[m].kind = "file"
                /\ paRoot[m].from = "extracted"
                /\ paRoot[m].src = n

\* ------------------------------------------------------------------------
\* LoopSpec: the for loop of check_pending_files over the files promoted in
\* one tick, and the try/except boundaries of process_archive.
\* ------------------------------------------------------------------------

MaxFiles == 3

\* What can be wrong with a promoted file when its turn comes.
FileKinds ==
    {"sound", "nonexistent", "notArchive", "corrupt", "empty",
     "renameFails", "mkdirFails", "moveFails"}

\* The kinds that are failures of the archive.
FailureKinds == FileKinds \ {"sound"}

\* archive_path.stat() in the first log line raises FileNotFoundError for a
\* path that is gone, before the exists() test is reached.
StatRaises(kind) == kind = "nonexistent"

\* _detect_file_type: a zero-byte file named empty.zip is typed by its
\* extension; only a file that is no archive has no type.
HasType(kind) == kind # "notArchive"

\* Path.rename of the extension fix or of the password strip raises OSError.
RenameRaises(kind) == kind = "renameFails"

\* _extract_archive_by_type: the backend raises on corrupt or zero-byte data
\* and the exception is turned into False there.
ExtractSucceeds(kind) == kind \notin {"corrupt", "empty"}

\* _apply_rules and its handlers: mkdir or shutil.move raises, the handler's
\* except clause returns False.
RulesSucceed(kind) == kind \notin {"mkdirFails", "moveFails"}

\* The body of the try block of process_archive: "True", "False", or
\* "raised" when an exception leaves the body.
TryBody(kind) ==
    IF StatRaises(kind) THEN "raised"
    ELSE IF ~HasType(kind) THEN "False"
    ELSE IF RenameRaises(kind) THEN "raised"
    ELSE IF ~ExtractSucceeds(kind) THEN "False"
    ELSE IF ~RulesSucceed(kind) THEN "False"
    ELSE "True"

\* process_archive without its except clause.
ProcessArchiveUnguarded(kind) == TryBody(kind)

\* process_archive: except Exception turns a raised exception into False.
ProcessArchiveOutcome(kind) ==
    IF TryBody(kind) = "raised" THEN "False" ELSE TryBody(kind)

\* The except Exception clause of the loop body.
LoopCatches(outcome) == outcome = "raised"

FileLists ==
    UNION {[1..n -> FileKinds] : n \in 0..MaxFiles}

LoopInit ==
    /\ lpFiles \in FileLists
    /\ lpIdx = 1
    /\ lpHanded = << >>
    /\ lpResults = << >>
    /\ lpPc = "idle"

\* check_pending_files reaches the for loop with files_to_process built.
LoopBegin ==
    /\ lpPc = "idle"
    /\ lpPc' = "loop"
    /\ UNCHANGED <<lpFiles, lpIdx, lpHanded, lpResults>>
    /\ UNCHANGED <<trackerVars, raceVars, pwVars, casVars, detVars, procVars, shutVars, sweepVars, organizedVars>>

\* One iteration: try process_archive(file_path), except Exception: log.
LoopCall ==
    /\ lpPc = "loop"
    /\ lpIdx <= Len(lpFiles)
    /\ LET outcome == ProcessArchiveOutcome(lpFiles[lpIdx])
       IN /\ lpHanded' = Append(lpHanded, lpIdx)
          /\ lpResults' = Append(lpResults, outcome)
          /\ IF outcome # "raised" \/ LoopCatches(outcome)
             THEN /\ lpIdx' = lpIdx + 1
                  /\ lpPc' = "loop"
             ELSE /\ lpIdx' = lpIdx
                  /\ lpPc' = "crashed"
    /\ UNCHANGED lpFiles
    /\ UNCHANGED <<trackerVars, raceVars, pwVars, casVars, detVars, procVars, shutVars, sweepVars, organizedVars>>

\* The loop is exhausted and check_pending_files returns.
LoopReturn ==
    /\ lpPc = "loop"
    /\ lpIdx > Len(lpFiles)
    /\ lpPc' = "done"
    /\ UNCHANGED <<lpFiles, lpIdx, lpHanded, lpResults>>
    /\ UNCHANGED <<trackerVars, raceVars, pwVars, casVars, detVars, procVars, shutVars, sweepVars, organizedVars>>

LoopNext ==
    \/ LoopBegin
    \/ LoopCall
    \/ LoopReturn

InitLoop == TrackerInit /\ RaceInit /\ PwIdle /\ CasIdle /\ DetIdle /\ ProcIdle /\ LoopInit /\ ShutIdle /\ SweepIdle /\ OrganizedIdle

LoopSpec == InitLoop /\ [][LoopNext]_vars

MaxQueued == 2

\* An archive as the tick sees it: the number of its top-level entries and
\* whether its extraction succeeds.
QueuedArchives == [entries : 1..MaxEntries, sound : BOOLEAN]

ShutInit ==
    /\ shRunning = FALSE
    /\ shObserver = "new"
    /\ shPending = << >>
    /\ shTodo = << >>
    /\ shStage = "none"
    /\ shMoved = 0
    /\ shLog = << >>
    /\ shPc = "init"

\* start: observer.start(), running = True, then the while loop.
Start ==
    /\ shPc = "init"
    /\ shObserver' = "alive"
    /\ shRunning' = TRUE
    /\ shPc' = "sleep"
    /\ UNCHANGED <<shPending, shTodo, shStage, shMoved, shLog>>
    /\ UNCHANGED <<trackerVars, raceVars, pwVars, casVars, detVars, procVars, loopVars, sweepVars, organizedVars>>

\* The observer thread reports a new archive, which becomes pending; at most
\* MaxQueued archives arrive in a run.
Notify(a) ==
    /\ shObserver = "alive"
    /\ Len(shPending) + Len(shTodo) + Len(shLog) < MaxQueued
    /\ shPending' = Append(shPending, a)
    /\ UNCHANGED <<shRunning, shObserver, shTodo, shStage, shMoved, shLog, shPc>>
    /\ UNCHANGED <<trackerVars, raceVars, pwVars, casVars, detVars, procVars, loopVars, sweepVars, organizedVars>>

\* while self.running: sleep, then check_pending_files promotes the pending
\* archives into files_to_process.
TickBegin ==
    /\ shPc = "sleep"
    /\ shRunning
    /\ shTodo' = shPending
    /\ shPending' = << >>
    /\ shPc' = "tick"
    /\ UNCHANGED <<shRunning, shObserver, shStage, shMoved, shLog>>
    /\ UNCHANGED <<trackerVars, raceVars, pwVars, casVars, detVars, procVars, loopVars, sweepVars, organizedVars>>

\* process_archive is called on the next file and starts extracting it into
\* the scratch directory.
ArchiveOpen ==
    /\ shPc = "tick"
    /\ shTodo # << >>
    /\ shStage = "none"
    /\ shStage' = "extracting"
    /\ UNCHANGED <<shRunning, shObserver, shPending, shTodo, shMoved, shLog, shPc>>
    /\ UNCHANGED <<trackerVars, raceVars, pwVars, casVars, detVars, procVars, loopVars, sweepVars, organizedVars>>

\* The extraction ends: on failure process_archive returns False.
ArchiveExtracted ==
    /\ shPc = "tick"
    /\ shStage = "extracting"
    /\ IF Head(shTodo).sound
       THEN /\ shStage' = "disposing"
            /\ UNCHANGED <<shTodo, shLog>>
       ELSE /\ shStage' = "none"
            /\ shTodo' = Tail(shTodo)
            /\ shLog' = Append(shLog, "failed")
    /\ UNCHANGED <<shRunning, shObserver, shPending, shMoved, shPc>>
    /\ UNCHANGED <<trackerVars, raceVars, pwVars, casVars, detVars, procVars, loopVars, sweepVars, organizedVars>>

\* The disposition moves one more entry out of the scratch directory.
ArchiveMove ==
    /\ shPc = "tick"
    /\ shStage = "disposing"
    /\ shMoved < Head(shTodo).entries
    /\ shMoved' = shMoved + 1
    /\ UNCHANGED <<shRunning, shObserver, shPending, shTodo, shStage, shLog, shPc>>
    /\ UNCHANGED <<trackerVars, raceVars, pwVars, casVars, detVars, procVars, loopVars, sweepVars, organizedVars>>

\* Every entry is moved: the archive is deleted and process_archive
\* returns True.
ArchiveDelete ==
    /\ shPc = "tick"
    /\ shStage = "disposing"
    /\ shMoved = Head(shTodo).entries
    /\ shStage' = "none"
    /\ shMoved' = 0
    /\ shTodo' = Tail(shTodo)
    /\ shLog' = Append(shLog, "done")
    /\ UNCHANGED <<shRunning, shObserver, shPending, shPc>>
    /\ UNCHANGED <<trackerVars, raceVars, pwVars, casVars, detVars, procVars, loopVars, sweepVars, organizedVars>>

\* check_pending_files returns; the while test is evaluated again, and when
\* it fails the finally clause calls stop() and start returns.
TickEnd ==
    /\ shPc = "tick"
    /\ shTodo = << >>
    /\ shPc' = IF shRunning THEN "sleep" ELSE "exited"
    /\ UNCHANGED <<shRunning, shObserver, shPending, shTodo, shStage, shMoved, shLog>>
    /\ UNCHANGED <<trackerVars, raceVars, pwVars, casVars, detVars, procVars, loopVars, sweepVars, organizedVars>>

\* stop: only when running, clear the flag and stop and join the observer.
StopObserver(observer, running) == IF running THEN "stopped" ELSE observer

\* signal_handler: stop(), then sys.exit(0) raises SystemExit at the point
\* where the main thread was interrupted.
SignalHandler ==
    /\ shPc \in {"init", "sleep", "tick"}
    /\ shRunning' = FALSE
    /\ shObserver' = StopObserver(shObserver, shRunning)
    /\ shPc' = "unwinding"
    /\ UNCHANGED <<shPending, shTodo, shStage, shMoved, shLog>>
    /\ UNCHANGED <<trackerVars, raceVars, pwVars, casVars, detVars, procVars, loopVars, sweepVars, organizedVars>>

\* Whether an except clause on the way out handles the exception: the
\* clauses of process_archive and of the loop name Exception, the one of
\* start names KeyboardInterrupt; SystemExit is neither.
Handles(clause, exc) ==
    \/ clause = "Exception" /\ exc \in {"OSError", "BadZipFile"}
    \/ clause = exc

\* SystemExit leaves process_archive, the loop and start: the scratch
\* directory is removed by its context manager, finally calls stop(), which
\* finds running False, and the process exits with the current archive
\* where it was.
Unwind ==
    /\ shPc = "unwinding"
    /\ IF \E clause \in {"Exception", "KeyboardInterrupt"} : Handles(clause, "SystemExit")
       THEN shPc' = "tick"
       ELSE shPc' = "exited"
    /\ shLog' = IF shStage # "none" THEN Append(shLog, "aborted") ELSE shLog
    /\ shObserver' = StopObserver(shObserver, shRunning)
    /\ UNCHANGED <<shRunning, shPending, shTodo, shStage, shMoved>>
    /\ UNCHANGED <<trackerVars, raceVars, pwVars, casVars, detVars, procVars, loopVars, sweepVars, organizedVars>>

ShutNext ==
    \/ Start
    \/ \E a \in QueuedArchives : Notify(a)
    \/ TickBegin
    \/ ArchiveOpen
    \/ ArchiveExtracted
    \/ ArchiveMove
    \/ ArchiveDelete
    \/ TickEnd
    \/ SignalHandler
    \/ Unwind

InitShut == TrackerInit /\ RaceInit /\ PwIdle /\ CasIdle /\ DetIdle /\ ProcIdle /\ LoopIdle /\ ShutInit /\ SweepIdle /\ OrganizedIdle

ShutSpec == InitShut /\ [][ShutNext]_vars

\* C19: once the process has exited after a shutdown signal, the observer
\* is not running and the archive the tick was processing is not left
\* half-way: it was extracted, disposed and deleted, or reported as failed.
C19_InFlightArchiveFinishes ==
    shPc = "exited" => /\ shObserver # "alive"
                       /\ shStage = "none"


\* C30 (as stated): for every existing regular file, _is_archive_file of
\* the tracker is true exactly when _detect_file_type returns a kind.
C30_FilterAgreesWithDetector ==
    (dtPc = "done" /\ dtFile.kind = "file")
    => (IsArchiveFile(dtFile, dtMagic) <=> dtRes.type # "none")


\* C22 (as stated): after any tick in which a pending file's size or
\* modification time differs from what the previous tick observed, the
\* file's stable count is 0, whatever notifications were handled between
\* the two ticks.
C22_ChangeResetsStableCount ==
    \A p \in Paths : tickRes[p].changed => tickRes[p].sc = 0

\* C28: with min_stable_checks >= 1 and max_wait_time not below the grace
\* delay, a tick inside the grace period leaves the stable count at 0,
\* whatever notifications raised it before, and promotes nothing.
C28_NothingPromotedInGrace ==
    (min_stable_checks >= 1 /\ max_wait_time >= min_check_delay)
    => \A p \in Paths :
          (tickRes[p].res \in {"wait", "stable", "forced"}
              /\ tickRes[p].el < min_check_delay)
          => /\ tickRes[p].sc = 0
             /\ tickRes[p].res = "wait"
             /\ p \in DOMAIN pending_files
             /\ p \notin calls

\* A tick inside the grace period met a stable count that notifications had
\* raised to the threshold, reset it and left the file pending.
C28_Witness ==
    \E p \in DOMAIN pending_files :
        /\ lastOp = "tick"
        /\ tickRes[p].el < min_check_delay
        /\ tickRes[p].before >= min_stable_checks
        /\ pending_files[p].stable_count = 0
        /\ calls = {}

\* C29: a modification notification for a path that is not in the pending
\* mapping leaves the mapping unchanged; an entry appears only through a
\* creation notification, and only a path that has an entry is promoted and
\* processed.
C29_OnlyCreationEnqueues ==
    [][ /\ lastOp' = "on_modified"
           => \A p \in Paths :
                 p \notin DOMAIN pending_files => p \notin DOMAIN pending_files'
        /\ (DOMAIN pending_files' \ DOMAIN pending_files) # {}
           => lastOp' = "on_created"
        /\ calls' \subseteq DOMAIN pending_files ]_vars

\* A modification notification arrived for an existing archive that was
\* never reported as created; the mapping is still empty.
C29_Witness ==
    /\ lastOp = "on_modified"
    /\ DOMAIN pending_files = {}
    /\ \E p \in Paths : files[p].exists


\* ------------------------------------------------------------------------
\* SweepSpec: one call of check_pending_files over a mapping of several
\* entries, iteration by iteration of the loop at monitor.py:132-199.
\* ------------------------------------------------------------------------

MaxPending == 2

SweepPaths == {"a.zip", "b.zip", "c.zip"}

\* The entries and files a tick can meet: inside the grace period, past
\* it, and past max_wait_time; one stable check short of the threshold.
SweepEntries ==
    [last_size : {1}, last_mtime : {1},
     elapsed : {0, min_check_delay, MaxElapsed},
     stable_count : {min_stable_checks - 1}]

SweepFiles ==
    {NoFile, [exists |-> TRUE, size |-> 1, mtime |-> 1],
     [exists |-> TRUE, size |-> 2, mtime |-> 1]}

\* The orders in which the mapping can list n of the paths.
SweepOrders ==
    {q \in UNION {[1..n -> SweepPaths] : n \in 1..MaxPending} :
        \A i, j \in 1..Len(q) : i # j => q[i] # q[j]}

Range(q) == {q[i] : i \in 1..Len(q)}

SweepInit ==
    /\ swItems \in SweepOrders
    /\ swBefore \in [Range(swItems) -> SweepEntries]
    /\ swPending = swBefore
    /\ swFiles \in [Range(swItems) -> SweepFiles]
    /\ swStat \in [Range(swItems) -> BOOLEAN]
    /\ swVisited = << >>
    /\ swToProcess = << >>
    /\ swPc = "loop"

\* The loop body without the try around the two stat() calls.
VisitEntryUnguarded(e, f, ok) ==
    IF ~f.exists THEN [res |-> "missing", e |-> e]
    ELSE IF ~ok THEN [res |-> "raise", e |-> e]
    ELSE LET u == TickUpdate(e, [size |-> f.size, mtime |-> f.mtime])
         IN [res |-> Decision(u), e |-> u]

\* The loop body for one entry, monitor.py:133-199: a missing file drops
\* the entry, an OSError of stat() skips it, else the stability update and
\* the promotion decision.
VisitEntry(e, f, ok) ==
    IF ~f.exists THEN [res |-> "missing", e |-> e]
    ELSE IF ~ok THEN [res |-> "statfail", e |-> e]
    ELSE LET u == TickUpdate(e, [size |-> f.size, mtime |-> f.mtime])
         IN [res |-> Decision(u), e |-> u]

\* One iteration of the loop.
SweepVisit ==
    /\ swPc = "loop"
    /\ swItems # << >>
    /\ LET p == Head(swItems)
           r == VisitEntry(swPending[p], swFiles[p], swStat[p])
       IN /\ swVisited' = Append(swVisited, p)
          /\ swItems' = Tail(swItems)
          /\ swPc' = IF r.res = "raise" THEN "crashed" ELSE "loop"
          /\ swPending' =
               IF r.res \in {"missing", "stable", "forced"}
               THEN [q \in (DOMAIN swPending) \ {p} |-> swPending[q]]
               ELSE [swPending EXCEPT ![p] = r.e]
          /\ swToProcess' =
               IF r.res \in {"stable", "forced"}
               THEN Append(swToProcess, p) ELSE swToProcess
    /\ UNCHANGED <<swFiles, swStat, swBefore>>
    /\ UNCHANGED <<trackerVars, raceVars, pwVars, casVars, detVars, procVars, loopVars, shutVars, organizedVars>>

\* The loop is exhausted; the files of files_to_process are processed and
\* check_pending_files returns.
SweepProcess ==
    /\ swPc = "loop"
    /\ swItems = << >>
    /\ swPc' = "done"
    /\ UNCHANGED <<swFiles, swStat, swBefore, swPending, swItems, swVisited, swToProcess>>
    /\ UNCHANGED <<trackerVars, raceVars, pwVars, casVars, detVars, procVars, loopVars, shutVars, organizedVars>>

SweepNext ==
    \/ SweepVisit
    \/ SweepProcess

InitSweep == TrackerInit /\ RaceInit /\ PwIdle /\ CasIdle /\ DetIdle /\ ProcIdle /\ LoopIdle /\ ShutIdle /\ SweepInit /\ OrganizedIdle

SweepSpec == InitSweep /\ [][SweepNext]_vars

\* C23: a tick that finds a pending file missing removes its entry without
\* processing it and without raising; a tick that cannot stat a pending
\* file leaves that entry as it was; in both cases the loop goes on and
\* every other entry of the mapping is evaluated in the same tick.
C23_MissingDroppedStatFailureSkipped ==
    /\ swPc # "crashed"
    /\ \A p \in Range(swVisited) :
          /\ ~swFiles[p].exists
                => p \notin DOMAIN swPending /\ p \notin Range(swToProcess)
          /\ (swFiles[p].exists /\ ~swStat[p])
                => /\ p \in DOMAIN swPending
                   /\ swPending[p] = swBefore[p]
                   /\ p \notin Range(swToProcess)
    /\ swPc = "done" => Range(swVisited) = DOMAIN swBefore

\* A finished tick whose stat of the first entry failed and whose second
\* entry was missing.
C23_Witness ==
    /\ swPc = "done"
    /\ Len(swVisited) = 2
    /\ swFiles[swVisited[1]].exists /\ ~swStat[swVisited[1]]
    /\ ~swFiles[swVisited[2]].exists


\* ------------------------------------------------------------------------
\* OrganizedSpec: the notification handlers and process_archive on a watch
\* root that holds directories, files that are no archives and, possibly,
\* archives.
\* ------------------------------------------------------------------------

\* what the watch root may hold
OrganizedCatalog ==
    LET rj1 == <<"R", "J", "1">>
        au == <<"a", "u">>
        txt == <<"r", ".", "t", "x", "t">>
        notes == <<"n", "o", "t", "e", "s">>
        wk == <<"w", "k">>
        wkz == <<"w", "k">> \o Ext
    IN [n \in {rj1, au, txt, notes, wk, wkz} |->
          IF n \in {rj1, au} THEN DirEntry("pre", n)
          ELSE IF n \in {txt, notes} THEN FileEntry("pre", n, TextBytes)
          ELSE FileEntry("pre", n, ZipBytes)]

OrganizedRoots ==
    {[n \in S |-> OrganizedCatalog[n]] :
        S \in (SUBSET DOMAIN OrganizedCatalog) \ {{}}}

\* the file the filter and the detector look at for the entry named n
FileOf(root, n) ==
    [kind |-> root[n].kind, suffix |-> SuffixString(SuffixOf(n)),
     header |-> root[n].header]

\* process_archive is called on one entry of the watch root
OrganizedInit ==
    /\ paGen \in [name : DOMAIN OrganizedCatalog,
                  content : {c \in Contents : Cardinality(DOMAIN c) <= 1},
                  pre : OrganizedRoots]
    /\ paGen.name \in DOMAIN paGen.pre
    /\ paRoot = paGen.pre
    /\ paScratch = NoEntries
    /\ paPath = paGen.name
    /\ paPw = NoPassword
    /\ paDisp = "none"
    /\ paOut = NoOutcome
    /\ paPc = "start"
    /\ ogPending = {}
    /\ ogLast = [op |-> "none", name |-> << >>]

\* on_created, monitor.py:38-46 and _handle_new_file, 75-98
OrgCreated(n, is_directory) ==
    /\ n \in DOMAIN paRoot
    /\ is_directory = (paRoot[n].kind = "dir")
    /\ ogPending' =
         IF is_directory THEN ogPending
         ELSE IF IsArchiveFile(FileOf(paRoot, n), MagicInstalled)
         THEN ogPending \cup {n}
         ELSE ogPending
    /\ ogLast' = [op |-> "on_created", name |-> n]
    /\ UNCHANGED <<trackerVars, raceVars, pwVars, casVars, detVars, procVars, loopVars, shutVars, sweepVars>>

\* on_modified, monitor.py:48-55 and _handle_modified_file, 100-125: only a
\* path that has an entry is updated
OrgModified(n, is_directory) ==
    /\ n \in DOMAIN paRoot
    /\ is_directory = (paRoot[n].kind = "dir")
    /\ ogPending' = ogPending
    /\ ogLast' = [op |-> "on_modified", name |-> n]
    /\ UNCHANGED <<trackerVars, raceVars, pwVars, casVars, detVars, procVars, loopVars, shutVars, sweepVars>>

OrganizedNext ==
    \/ \E n \in DOMAIN OrganizedCatalog, d \in BOOLEAN : OrgCreated(n, d)
    \/ \E n \in DOMAIN OrganizedCatalog, d \in BOOLEAN : OrgModified(n, d)
    \/ PaDetect(TRUE)
    \/ PaPassword(TRUE)
    \/ \E ok \in BOOLEAN, got \in SUBSET DOMAIN paGen.content : PaExtract(ok, got)
    \/ PaEmpty(TRUE)
    \/ \E processed \in SUBSET DOMAIN paScratch :
          PaRules(DOMAIN paScratch, processed, "none")
    \/ PaFinish(TRUE)

InitOrganized == TrackerInit /\ RaceInit /\ PwIdle /\ CasIdle /\ DetIdle /\ OrganizedInit /\ LoopIdle /\ ShutIdle /\ SweepIdle

OrganizedSpec == InitOrganized /\ [][OrganizedNext]_vars

\* the watch root held no archive before the call: directories, and files
\* the detector does not take for an archive
ArchiveFree ==
    \A n \in DOMAIN paGen.pre : EntryType(n, paGen.pre[n]) = "none"

\* C21: on a watch root that holds only directories and non-archive files
\* the tracker enqueues none of them, and process_archive on one of them
\* returns False without creating, renaming, moving or deleting any entry.
C21_OrganizedRootIsLeftAlone ==
    ArchiveFree
    => /\ ogPending = {}
       /\ paRoot = paGen.pre
       /\ paPath = paGen.name
       /\ paScratch = NoEntries
       /\ paPc \in {"start", "returned"}
       /\ paPc = "returned" => paOut.result = "False" /\ ~paOut.raised

\* Creation and modification were notified for the files and directories
\* of an archive-free watch root that holds a directory and a file without
\* extension, and process_archive has returned.
C21_Witness ==
    /\ ArchiveFree
    /\ \E n \in DOMAIN paGen.pre : paGen.pre[n].kind = "dir"
    /\ \E n \in DOMAIN paGen.pre :
          paGen.pre[n].kind = "file" /\ SuffixOf(n) = << >>
    /\ ogLast.op = "on_created"
    /\ paRoot[ogLast.name].kind = "file"
    /\ paPc = "returned"

====
